---- MODULE Spec2Model ----
(***************************************************************************)
(* A model of og-extractor/add_vibe_article/main.go: the slug deriver, the *)
(* URL date extractor, the structured-data date extractor, the markup walk *)
(* and the orchestrator extractOGMetadata; then main and appendToJSONFile   *)
(* with the backup, run by one or more invocations of the program on one   *)
(* file system.                                                            *)
(*                                                                         *)
(* Go strings are modelled as sequences of one-character strings, so that  *)
(* indexing, slicing, splitting and matching are computed as the code      *)
(* computes them.  Positions are 1-based; 0 stands for Go's -1.            *)
(***************************************************************************)
EXTENDS Integers, Sequences, FiniteSets, TLC

VARIABLES
    pc,        \* where the run stands
    input,     \* how the argument of a function under test was put together
    url,       \* the URL argument
    doc,       \* the parsed page: its nodes, the document node first
    stack,     \* the nodes extractMetadata has still to visit, next one first
    metadata,  \* the OGMetadata record being built
    ret,       \* the string a function under test returned
    walkDate,  \* metadata.PublishDate as the markup walk left it
    fs,        \* the file system: the contents of every file that exists, by path
    today,     \* the calendar day time.Now() gives
    proc       \* the invocations of the program: where each stands, and its locals

vars == <<pc, input, url, doc, stack, metadata, ret, walkDate, fs, today, proc>>

\* The variables of one extraction, and those of the runs of main.
walkVars == <<pc, url, doc, stack, metadata, ret, walkDate>>

fileVars == <<fs, today, proc>>

(***************************************************************************)
(* Bounds of the model.                                                    *)
(***************************************************************************)
\* The number of pieces a URL given to extractSlug is concatenated from.
MaxSlugPieces == 5
\* The number of parts a URL given to extractDateFromURL is concatenated from.
MaxDateParts == 3
\* The number of elements below the document node of a parsed page.
MaxNodes == 2
\* The number of runs of the program that follow one another.
MaxRuns == 2
\* The number of members of a JSON object given to extractDateFromJSON.
MaxMembers == 3

(***************************************************************************)
(* String helpers (package strings).                                       *)
(***************************************************************************)
\* s[from:] of Go, with `from` the 1-based position of the first kept char.
Drop(s, from) == SubSeq(s, from, Len(s))

\* s[:to] of Go, with `to` the number of characters kept.
Take(s, to) == SubSeq(s, 1, to)

HasPrefixAt(s, sub, i) ==
    /\ i + Len(sub) - 1 <= Len(s)
    /\ \A k \in 1..Len(sub) : s[i + k - 1] = sub[k]

\* strings.Index: the position of the first occurrence of sub in s, 0 if none.
Index(s, sub) ==
    LET hits == {i \in 1..Len(s) : HasPrefixAt(s, sub, i)}
    IN  IF hits = {} THEN 0 ELSE CHOOSE i \in hits : \A j \in hits : i <= j

\* strings.TrimSuffix
TrimSuffix(s, suffix) ==
    IF Len(s) >= Len(suffix) /\ HasPrefixAt(s, suffix, Len(s) - Len(suffix) + 1)
    THEN Take(s, Len(s) - Len(suffix))
    ELSE s

\* strings.Split with a non-empty separator: never empty, Split("") = [""].
RECURSIVE Split(_, _)
Split(s, sep) ==
    LET i == Index(s, sep)
    IN  IF i = 0 THEN <<s>>
        ELSE <<Take(s, i - 1)>> \o Split(Drop(s, i + Len(sep)), sep)

RECURSIVE Concat(_)
Concat(ss) == IF ss = <<>> THEN <<>> ELSE Head(ss) \o Concat(Tail(ss))

\* All sequences over S of length at most n.
SeqsUpTo(S, n) == UNION {[1..k -> S] : k \in 0..n}

(***************************************************************************)
(* extractSlug                                                             *)
(***************************************************************************)
SchemeSep == <<":", "/", "/">>

\* Remove protocol: cut at the first "://" of the string.
StripScheme(u) ==
    LET idx == Index(u, SchemeSep)
    IN  IF idx # 0 THEN Drop(u, idx + 3) ELSE u

\* Remove query string and fragment.
StripQuery(u) ==
    LET q  == Index(u, <<"?">>)
        u1 == IF q # 0 THEN Take(u, q - 1) ELSE u
        f  == Index(u1, <<"#">>)
    IN  IF f # 0 THEN Take(u1, f - 1) ELSE u1

\* cleanURL as it stands after the TrimSuffix of line 175.
CleanURL(u) == TrimSuffix(StripQuery(StripScheme(u)), <<"/">>)

\* A scan that takes the first non-empty part instead of the last one.
ScanFromFront(parts, i) ==
    IF \E k \in 1..i : parts[k] # <<>>
    THEN parts[CHOOSE k \in 1..i : parts[k] # <<>> /\ \A j \in 1..(k - 1) : parts[j] = <<>>]
    ELSE <<"none">>

\* The backward loop of lines 183-187 from index i: the first non-empty part,
\* or <<"none">> when the loop runs out (no character is the string "none").
RECURSIVE ScanBack(_, _)
ScanBack(parts, i) ==
    IF i < 1 THEN <<"none">>
    ELSE IF parts[i] # <<>> THEN parts[i]
    ELSE ScanBack(parts, i - 1)

SlugFromParts(cleanURL) ==
    LET parts       == Split(cleanURL, <<"/">>)
        domainParts == Split(cleanURL, <<".">>)
        back        == ScanBack(parts, Len(parts) - 1)
    IN  IF Len(parts) > 0 /\ parts[Len(parts)] # <<>> THEN parts[Len(parts)]
        ELSE IF Len(parts) > 1 /\ back # <<"none">> THEN back
        ELSE IF Len(domainParts) > 0 THEN domainParts[1]
        ELSE <<>>

extractSlug(u) == SlugFromParts(CleanURL(u))

(***************************************************************************)
(* extractDateFromURL and validateDate                                     *)
(***************************************************************************)
Digits == <<"0", "1", "2", "3", "4", "5", "6", "7", "8", "9">>

IsDigit(c) == \E k \in 1..10 : Digits[k] = c

DigitVal(c) == (CHOOSE k \in 1..10 : Digits[k] = c) - 1

\* The value of a string of decimal digits.
RECURSIVE Atoi(_)
Atoi(s) == IF s = <<>> THEN 0 ELSE 10 * Atoi(Take(s, Len(s) - 1)) + DigitVal(s[Len(s)])

AllDigits(s) == \A k \in 1..Len(s) : IsDigit(s[k])

isLeap(year) == year % 4 = 0 /\ (year % 100 # 0 \/ year % 400 = 0)

\* A month table that takes every month to have 31 days.
daysInAlways31(month, year) == 31

\* time.daysIn
daysIn(month, year) ==
    IF month = 2 THEN (IF isLeap(year) THEN 29 ELSE 28)
    ELSE IF month \in {4, 6, 9, 11} THEN 30
    ELSE 31

\* time.Parse("2006-01-02", dateStr) returns no error: four digits, "-", two
\* digits, "-", two digits and nothing more; the month in 1..12 and the day
\* within the month.
validateDate(dateStr) ==
    /\ Len(dateStr) = 10
    /\ AllDigits(SubSeq(dateStr, 1, 4))
    /\ dateStr[5] = "-"
    /\ AllDigits(SubSeq(dateStr, 6, 7))
    /\ dateStr[8] = "-"
    /\ AllDigits(SubSeq(dateStr, 9, 10))
    /\ LET year  == Atoi(SubSeq(dateStr, 1, 4))
           month == Atoi(SubSeq(dateStr, 6, 7))
           day   == Atoi(SubSeq(dateStr, 9, 10))
       IN  /\ month >= 1 /\ month <= 12
           /\ day >= 1 /\ day <= daysIn(month, year)

\* A regular expression of the shapes the code uses: a sequence of atoms, each
\* a literal character or a capturing group of n digits, (\d{n}).
Lit(c) == [lit |-> c, n |-> 0]
Grp(n) == [lit |-> "", n |-> n]

\* The groups captured when the atoms from k on match s at position i, as
\* <<TRUE, groups>>, or <<FALSE, <<>>>> when they do not match.
RECURSIVE MatchFrom(_, _, _, _)
MatchFrom(regex, k, s, i) ==
    IF k > Len(regex) THEN <<TRUE, <<>>>>
    ELSE LET a == regex[k]
         IN  IF a.n = 0
             THEN IF i <= Len(s) /\ s[i] = a.lit
                  THEN MatchFrom(regex, k + 1, s, i + 1)
                  ELSE <<FALSE, <<>>>>
             ELSE IF i + a.n - 1 <= Len(s) /\ AllDigits(SubSeq(s, i, i + a.n - 1))
                  THEN LET rest == MatchFrom(regex, k + 1, s, i + a.n)
                       IN  IF rest[1]
                           THEN <<TRUE, <<SubSeq(s, i, i + a.n - 1)>> \o rest[2]>>
                           ELSE <<FALSE, <<>>>>
                  ELSE <<FALSE, <<>>>>

RegexLen(regex) ==
    LET RECURSIVE L(_)
        L(k) == IF k > Len(regex) THEN 0
                ELSE (IF regex[k].n = 0 THEN 1 ELSE regex[k].n) + L(k + 1)
    IN  L(1)

\* A search that gives the rightmost match.
FindLastSubmatch(regex, s) ==
    LET hits == {i \in 1..Len(s) : MatchFrom(regex, 1, s, i)[1]}
    IN  IF hits = {} THEN <<>>
        ELSE LET i == CHOOSE h \in hits : \A j \in hits : j <= h
             IN  <<SubSeq(s, i, i + RegexLen(regex) - 1)>> \o MatchFrom(regex, 1, s, i)[2]

\* regexp.FindStringSubmatch: the leftmost match as <<whole, group1, ...>>, or
\* <<>> (nil) when the expression matches nowhere.
FindStringSubmatch(regex, s) ==
    LET hits == {i \in 1..Len(s) : MatchFrom(regex, 1, s, i)[1]}
    IN  IF hits = {} THEN <<>>
        ELSE LET i == CHOOSE h \in hits : \A j \in hits : h <= j
             IN  <<SubSeq(s, i, i + RegexLen(regex) - 1)>> \o MatchFrom(regex, 1, s, i)[2]

\* The patterns with the day-first one moved to the front.
patternsDayFirstFirst ==
    << [regex   |-> <<Lit("/"), Grp(2), Lit("-"), Grp(2), Lit("-"), Grp(4)>>,
        example |-> "15-05-2023"],
       [regex   |-> <<Lit("/"), Grp(4), Lit("/"), Grp(2), Lit("/"), Grp(2), Lit("/")>>,
        example |-> "2023/05/15"],
       [regex   |-> <<Lit("/"), Grp(4), Lit("-"), Grp(2), Lit("-"), Grp(2)>>,
        example |-> "2023-05-15"],
       [regex   |-> <<Lit("/"), Grp(4), Grp(2), Grp(2)>>,
        example |-> "20230515"] >>

\* The patterns of lines 233-262, in their order.
patterns ==
    << [regex   |-> <<Lit("/"), Grp(4), Lit("/"), Grp(2), Lit("/"), Grp(2), Lit("/")>>,
        example |-> "2023/05/15"],
       [regex   |-> <<Lit("/"), Grp(4), Lit("-"), Grp(2), Lit("-"), Grp(2)>>,
        example |-> "2023-05-15"],
       [regex   |-> <<Lit("/"), Grp(2), Lit("-"), Grp(2), Lit("-"), Grp(4)>>,
        example |-> "15-05-2023"],
       [regex   |-> <<Lit("/"), Grp(4), Grp(2), Grp(2)>>,
        example |-> "20230515"] >>

\* fmt.Sprintf("%s-%s-%s", a, b, c)
Sprintf3(a, b, c) == a \o <<"-">> \o b \o <<"-">> \o c

\* A date string built from the groups in their order for every pattern.
DateOfMatchInOrder(pattern, matches) == Sprintf3(matches[2], matches[3], matches[4])

\* The date string one pattern builds from its match (lines 267-288): the
\* groups in their order, or reversed for the day-first pattern.
DateOfMatch(pattern, matches) ==
    IF pattern.example = "2023/05/15" \/ pattern.example = "2023-05-15"
    THEN Sprintf3(matches[2], matches[3], matches[4])
    ELSE IF pattern.example = "15-05-2023"
    THEN Sprintf3(matches[4], matches[3], matches[2])
    ELSE IF pattern.example = "20230515"
    THEN Sprintf3(matches[2], matches[3], matches[4])
    ELSE <<>>

\* The loop of lines 264-290 from pattern i on.
RECURSIVE DateFromPattern(_, _)
DateFromPattern(urlStr, i) ==
    IF i > Len(patterns) THEN <<>>
    ELSE LET pattern == patterns[i]
             matches == FindStringSubmatch(pattern.regex, urlStr)
         IN  IF Len(matches) >= 4 /\ validateDate(DateOfMatch(pattern, matches))
             THEN DateOfMatch(pattern, matches)
             ELSE DateFromPattern(urlStr, i + 1)

extractDateFromURL(urlStr) == DateFromPattern(urlStr, 1)

(***************************************************************************)
(* encoding/json, as far as extractDateFromJSON uses it: json.Unmarshal of *)
(* a text into a map[string]interface{}.  The grammar covered: objects,    *)
(* arrays, strings with the escapes json.Marshal writes, unsigned          *)
(* integers, null, true, false, and white space between the tokens.        *)
(***************************************************************************)
\* A decoded value: t is its type, s the characters of a string or number,
\* items the elements of an array or the <<key, value>> members of an object.
JVal(t, s, items) == [t |-> t, s |-> s, items |-> items]

JNull == JVal("null", <<>>, <<>>)

\* What a parse step gives: whether it succeeded, the value, the text left.
JOk(val, rest) == [ok |-> TRUE, val |-> val, rest |-> rest]

JFail == [ok |-> FALSE, val |-> JNull, rest |-> <<>>]

\* The white space of JSON: space, line feed, carriage return, tab.
WhiteSpace == {" ", "\n", "\r", "\t"}

RECURSIVE SkipSpace(_)
SkipSpace(s) == IF s # <<>> /\ Head(s) \in WhiteSpace THEN SkipSpace(Tail(s)) ELSE s

\* The \uXXXX escapes json.Marshal writes, and the characters they stand for.
UnicodeEscapes ==
    << <<<<"0", "0", "3", "c">>, "<">>, <<<<"0", "0", "3", "e">>, ">">>, <<<<"0", "0", "2", "6">>, "&">> >>

\* The characters of a string literal from s on, its opening quote read and
\* acc the characters decoded already.  A missing closing quote, a line feed
\* inside the literal and an escape other than \" \\ \/ \n and those of
\* UnicodeEscapes are errors.
RECURSIVE ScanString(_, _)
ScanString(s, acc) ==
    IF s = <<>> \/ Head(s) = "\n" THEN JFail
    ELSE IF Head(s) = "\"" THEN JOk(JVal("string", acc, <<>>), Tail(s))
    ELSE IF Head(s) # "\\" THEN ScanString(Tail(s), Append(acc, Head(s)))
    ELSE IF Len(s) < 2 THEN JFail
    ELSE IF s[2] \in {"\"", "\\", "/"} THEN ScanString(Drop(s, 3), Append(acc, s[2]))
    ELSE IF s[2] = "n" THEN ScanString(Drop(s, 3), Append(acc, "\n"))
    ELSE IF s[2] = "u" /\ Len(s) >= 6
                      /\ \E k \in 1..Len(UnicodeEscapes) : UnicodeEscapes[k][1] = SubSeq(s, 3, 6)
    THEN LET k == CHOOSE k \in 1..Len(UnicodeEscapes) : UnicodeEscapes[k][1] = SubSeq(s, 3, 6)
         IN  ScanString(Drop(s, 7), Append(acc, UnicodeEscapes[k][2]))
    ELSE JFail

\* A string literal at the head of s.
ParseString(s) ==
    IF s = <<>> \/ Head(s) # "\"" THEN JFail ELSE ScanString(Tail(s), <<>>)

RECURSIVE DigitPrefixLen(_)
DigitPrefixLen(s) == IF s # <<>> /\ IsDigit(Head(s)) THEN 1 + DigitPrefixLen(Tail(s)) ELSE 0

\* An unsigned integer at the head of s; a leading zero ends the number.
ParseNumber(s) ==
    LET n == IF Head(s) = "0" THEN 1 ELSE DigitPrefixLen(s)
    IN  JOk(JVal("number", Take(s, n), <<>>), Drop(s, n + 1))

ParseLiteral(s) ==
    IF HasPrefixAt(s, <<"n", "u", "l", "l">>, 1) THEN JOk(JNull, Drop(s, 5))
    ELSE IF HasPrefixAt(s, <<"t", "r", "u", "e">>, 1) THEN JOk(JVal("bool", <<"t", "r", "u", "e">>, <<>>), Drop(s, 5))
    ELSE IF HasPrefixAt(s, <<"f", "a", "l", "s", "e">>, 1) THEN JOk(JVal("bool", <<"f", "a", "l", "s", "e">>, <<>>), Drop(s, 6))
    ELSE JFail

RECURSIVE ParseValue(_), ParseItems(_, _), ParseMembers(_, _)

\* The value at the head of s, spaces before it skipped.
ParseValue(s0) ==
    LET s == SkipSpace(s0)
    IN  IF s = <<>> THEN JFail
        ELSE IF Head(s) = "{"
        THEN IF SkipSpace(Tail(s)) # <<>> /\ Head(SkipSpace(Tail(s))) = "}"
             THEN JOk(JVal("object", <<>>, <<>>), Tail(SkipSpace(Tail(s))))
             ELSE ParseMembers(Tail(s), <<>>)
        ELSE IF Head(s) = "["
        THEN IF SkipSpace(Tail(s)) # <<>> /\ Head(SkipSpace(Tail(s))) = "]"
             THEN JOk(JVal("array", <<>>, <<>>), Tail(SkipSpace(Tail(s))))
             ELSE ParseItems(Tail(s), <<>>)
        ELSE IF Head(s) = "\"" THEN ParseString(s)
        ELSE IF IsDigit(Head(s)) THEN ParseNumber(s)
        ELSE ParseLiteral(s)

\* The elements of an array from s on, acc holding those already read.
ParseItems(s, acc) ==
    LET v    == ParseValue(s)
        rest == SkipSpace(v.rest)
    IN  IF ~v.ok \/ rest = <<>> THEN JFail
        ELSE IF Head(rest) = "," THEN ParseItems(Tail(rest), Append(acc, v.val))
        ELSE IF Head(rest) = "]" THEN JOk(JVal("array", <<>>, Append(acc, v.val)), Tail(rest))
        ELSE JFail

\* The members of an object from s on, acc holding those already read.
ParseMembers(s, acc) ==
    LET k     == ParseString(SkipSpace(s))
        colon == SkipSpace(k.rest)
    IN  IF ~k.ok \/ colon = <<>> \/ Head(colon) # ":" THEN JFail
        ELSE LET v    == ParseValue(Tail(colon))
                 rest == SkipSpace(v.rest)
                 acc1 == Append(acc, <<k.val.s, v.val>>)
             IN  IF ~v.ok \/ rest = <<>> THEN JFail
                 ELSE IF Head(rest) = "," THEN ParseMembers(Tail(rest), acc1)
                 ELSE IF Head(rest) = "}" THEN JOk(JVal("object", <<>>, acc1), Tail(rest))
                 ELSE JFail

\* json.Unmarshal(text, &data) with data a nil map[string]interface{}: a
\* syntax error for a text that is not one JSON value, a type error for a
\* value that is neither an object nor null; data is the members decoded (none
\* for null).
Unmarshal(text) ==
    LET v == ParseValue(text)
    IN  IF ~v.ok \/ SkipSpace(v.rest) # <<>> THEN [err |-> TRUE, data |-> <<>>]
        ELSE IF v.val.t = "object" THEN [err |-> FALSE, data |-> v.val.items]
        ELSE IF v.val.t = "null" THEN [err |-> FALSE, data |-> <<>>]
        ELSE [err |-> TRUE, data |-> <<>>]

\* data[key]: the value of the last member with this key (a later duplicate
\* replaces an earlier one), ok false when the map holds no such key.
MapGet(data, key) ==
    LET at == {k \in 1..Len(data) : data[k][1] = key}
    IN  IF at = {} THEN [ok |-> FALSE, val |-> JNull]
        ELSE [ok |-> TRUE, val |-> data[CHOOSE k \in at : \A j \in at : j <= k][2]]

(***************************************************************************)
(* extractDateFromJSON                                                     *)
(***************************************************************************)
\* The fields with dateModified moved before dateCreated.
dateFieldsModifiedFirst ==
    << <<"d", "a", "t", "e", "P", "u", "b", "l", "i", "s", "h", "e", "d">>, <<"d", "a", "t", "e", "M", "o", "d", "i", "f", "i", "e", "d">>, <<"d", "a", "t", "e", "C", "r", "e", "a", "t", "e", "d">>, <<"p", "u", "b", "l", "i", "s", "h", "e", "d", "T", "i", "m", "e">>, <<"p", "u", "b", "D", "a", "t", "e">> >>

dateFields ==
    << <<"d", "a", "t", "e", "P", "u", "b", "l", "i", "s", "h", "e", "d">>, <<"d", "a", "t", "e", "C", "r", "e", "a", "t", "e", "d">>, <<"p", "u", "b", "l", "i", "s", "h", "e", "d", "T", "i", "m", "e">>, <<"d", "a", "t", "e", "M", "o", "d", "i", "f", "i", "e", "d">>, <<"p", "u", "b", "D", "a", "t", "e">> >>

\* The loop over dateFields (lines 212-217 and 221-226) from field i on: the
\* record after it, and whether the function returned from inside the loop.
RECURSIVE ScanDateFields(_, _, _)
ScanDateFields(data, md, i) ==
    IF i > Len(dateFields) THEN [md |-> md, returned |-> FALSE]
    ELSE LET got == MapGet(data, dateFields[i])
         IN  IF got.ok /\ got.val.t = "string" /\ md.PublishDate = <<>>
             THEN [md |-> [md EXCEPT !.PublishDate = got.val.s], returned |-> TRUE]
             ELSE ScanDateFields(data, md, i + 1)

\* data["@type"] is the string "Article" or "NewsArticle".
IsArticleType(data) ==
    LET got == MapGet(data, <<"@", "t", "y", "p", "e">>)
    IN  /\ got.ok
        /\ got.val.t = "string"
        /\ got.val.s \in {<<"A", "r", "t", "i", "c", "l", "e">>, <<"N", "e", "w", "s", "A", "r", "t", "i", "c", "l", "e">>}

\* A date extractor that does not parse: it takes the characters that follow
\* the first "datePublished":" of the text, up to the next quote.
extractDateBySearch(jsonContent, md) ==
    LET key   == <<"\"", "d", "a", "t", "e", "P", "u", "b", "l", "i", "s", "h", "e", "d", "\"", ":", "\"">>
        at    == Index(jsonContent, key)
        after == Drop(jsonContent, at + Len(key))
        close == Index(after, <<"\"">>)
    IN  IF at # 0 /\ close # 0 /\ md.PublishDate = <<>>
        THEN [md EXCEPT !.PublishDate = Take(after, close - 1)]
        ELSE md

\* An extractor that looks for a date in articles only.
extractDateArticlesOnly(jsonContent, md) ==
    LET r == Unmarshal(jsonContent)
    IN  IF r.err \/ ~IsArticleType(r.data) THEN md
        ELSE ScanDateFields(r.data, md, 1).md

\* An extractor that passes over the fields whose value is the empty string.
extractDateSkipEmpty(jsonContent, md) ==
    LET r    == Unmarshal(jsonContent)
        full == IF r.err THEN {}
                ELSE {i \in 1..Len(dateFields) :
                         LET got == MapGet(r.data, dateFields[i])
                         IN  got.ok /\ got.val.t = "string" /\ got.val.s # <<>>}
    IN  IF full = {} \/ md.PublishDate # <<>> THEN md
        ELSE [md EXCEPT !.PublishDate =
                 MapGet(r.data, dateFields[CHOOSE i \in full : \A j \in full : i <= j]).val.s]

\* The record extractDateFromJSON leaves behind.
extractDateFromJSON(jsonContent, md) ==
    LET r == Unmarshal(jsonContent)
    IN  IF r.err THEN md
        ELSE LET first == ScanDateFields(r.data, md, 1)
             IN  IF first.returned THEN first.md
                 ELSE IF IsArticleType(r.data) THEN ScanDateFields(r.data, first.md, 1).md
                 ELSE first.md

(***************************************************************************)
(* The parsed page (golang.org/x/net/html) and the markup walk.            *)
(*                                                                         *)
(* A node is [Type, Data, Attr, Kids, Note]: Kids are the positions of its *)
(* children in doc, first child first; Note says how the node was made and *)
(* is read by the properties only, never by the operations.  Tag names,    *)
(* attribute keys and the values of property, name and type attributes are *)
(* only ever compared with literals and are kept as whole strings; content *)
(* values and text nodes are sequences of characters.                      *)
(***************************************************************************)
DateMetaKeys ==
    {"article:published_time", "datePublished", "pubdate", "publishdate",
     "DC.date.issued", "article:modified_time"}

\* The loop of lines 99-106: the value of the last attribute whose key is one
\* of keys, def when there is none.
AttrLast(attrs, keys, def) ==
    LET at == {k \in 1..Len(attrs) : attrs[k].Key \in keys}
    IN  IF at = {} THEN def ELSE attrs[CHOOSE k \in at : \A j \in at : j <= k].Val

\* A date case that overwrites a date already found.
SetDateAlways(md, content) == [md EXCEPT !.PublishDate = content]

\* Lines 120-122.
SetDateIfUnset(md, content) ==
    IF md.PublishDate = <<>> THEN [md EXCEPT !.PublishDate = content] ELSE md

\* A switch whose og:url case takes the slug from the page as well.
ProcessMetaSlugFromPage(n, md) ==
    LET property == AttrLast(n.Attr, {"property", "name"}, "")
        content  == AttrLast(n.Attr, {"content"}, <<>>)
    IN  CASE property = "og:url" -> [md EXCEPT !.URL = content, !.Slug = extractSlug(content)]
          [] property = "og:title" -> [md EXCEPT !.Title = content]
          [] property = "og:description" -> [md EXCEPT !.Description = content]
          [] property = "og:image" -> [md EXCEPT !.Image = content]
          [] property = "og:site_name" -> [md EXCEPT !.Source = content]
          [] property \in DateMetaKeys -> SetDateIfUnset(md, content)
          [] OTHER -> md

\* A switch in which an OpenGraph field that holds something is not set again.
ProcessMetaFirstWins(n, md) ==
    LET property == AttrLast(n.Attr, {"property", "name"}, "")
        content  == AttrLast(n.Attr, {"content"}, <<>>)
        keep(old) == IF old = <<>> THEN content ELSE old
    IN  CASE property = "og:url" -> [md EXCEPT !.URL = keep(@)]
          [] property = "og:title" -> [md EXCEPT !.Title = keep(@)]
          [] property = "og:description" -> [md EXCEPT !.Description = keep(@)]
          [] property = "og:image" -> [md EXCEPT !.Image = keep(@)]
          [] property = "og:site_name" -> [md EXCEPT !.Source = keep(@)]
          [] property \in DateMetaKeys -> SetDateIfUnset(md, content)
          [] OTHER -> md

\* The switch of lines 108-123 on a meta element.
ProcessMeta(n, md) ==
    LET property == AttrLast(n.Attr, {"property", "name"}, "")
        content  == AttrLast(n.Attr, {"content"}, <<>>)
    IN  CASE property = "og:url" -> [md EXCEPT !.URL = content]
          [] property = "og:title" -> [md EXCEPT !.Title = content]
          [] property = "og:description" -> [md EXCEPT !.Description = content]
          [] property = "og:image" -> [md EXCEPT !.Image = content]
          [] property = "og:site_name" -> [md EXCEPT !.Source = content]
          [] property \in DateMetaKeys -> SetDateIfUnset(md, content)
          [] OTHER -> md

\* Lines 128-134.
IsJSONScript(n) ==
    \E k \in 1..Len(n.Attr) :
        /\ n.Attr[k].Key = "type"
        /\ n.Attr[k].Val \in {"application/ld+json", "application/json"}

\* Lines 127-140 on a script element of page d.
ProcessScript(d, n, md) ==
    IF IsJSONScript(n) /\ n.Kids # <<>>
    THEN extractDateFromJSON(d[n.Kids[1]].Data, md)
    ELSE md

\* What one call of extractMetadata does to the record before it recurses.
ProcessNode(d, n, md) ==
    LET md1 == IF n.Type = "Element" /\ n.Data = "meta" THEN ProcessMeta(n, md) ELSE md
    IN  IF n.Type = "Element" /\ n.Data = "script" THEN ProcessScript(d, n, md1) ELSE md1

\* A walk that visits the children of a node after the nodes waiting already.
PushKidsLast(kids, waiting) == waiting \o kids

\* Lines 143-145: the children of the node are visited, first child first,
\* before anything that was waiting.
PushKids(kids, waiting) == kids \o waiting

\* A fallback that takes the date of the URL whatever the walk found.
DateFallbackAlways(md, u) == [md EXCEPT !.PublishDate = extractDateFromURL(u)]

\* Lines 150-153.
DateFallback(md, u) ==
    IF md.PublishDate = <<>> THEN [md EXCEPT !.PublishDate = extractDateFromURL(u)] ELSE md

(***************************************************************************)
(* The record and the values of the variables an operation leaves alone.   *)
(***************************************************************************)
\* OGMetadata{}
ZeroMetadata ==
    [URL |-> <<>>, Title |-> <<>>, Description |-> <<>>, Image |-> <<>>,
     Slug |-> <<>>, PublishDate |-> <<>>, Source |-> <<>>]

NoDoc == <<>>

NoInput == [kind |-> "none"]

\* No file, no invocation of main: the values of fs, today and proc while one
\* function or one extraction is looked at on its own.
NoFiles ==
    /\ fs = <<>>
    /\ today = <<>>
    /\ proc = <<>>

(***************************************************************************)
(* encoding/json, as printMetadata and appendToJSONFile use it:            *)
(* json.MarshalIndent(v, "", "  ") of an OGMetadata and of an              *)
(* ArticlesCollection.                                                     *)
(***************************************************************************)
\* What json.Marshal writes for one character of a string.
EscapeChar(c) ==
    CASE c = "\"" -> <<"\\", "\"">>
      [] c = "\\" -> <<"\\", "\\">>
      [] c = "\n" -> <<"\\", "n">>
      [] c = "<" -> <<"\\", "u", "0", "0", "3", "c">>
      [] c = ">" -> <<"\\", "u", "0", "0", "3", "e">>
      [] c = "&" -> <<"\\", "u", "0", "0", "2", "6">>
      [] OTHER -> <<c>>

EncodeString(s) == <<"\"">> \o Concat([k \in 1..Len(s) |-> EscapeChar(s[k])]) \o <<"\"">>

\* The indentation of a line at the given depth: two spaces a level.
Indent(depth) == [k \in 1..(2 * depth) |-> " "]

RECURSIVE JoinWith(_, _)
JoinWith(ss, sep) ==
    IF ss = <<>> THEN <<>>
    ELSE IF Len(ss) = 1 THEN ss[1]
    ELSE ss[1] \o sep \o JoinWith(Tail(ss), sep)

\* The fields of OGMetadata in the order of their declaration, with their JSON
\* keys and options (lines 20-26).
RecordFields ==
    << [name |-> "URL",         key |-> <<"u", "r", "l">>,         omitempty |-> FALSE],
       [name |-> "Title",       key |-> <<"t", "i", "t", "l", "e">>,       omitempty |-> FALSE],
       [name |-> "Description", key |-> <<"d", "e", "s", "c", "r", "i", "p", "t", "i", "o", "n">>, omitempty |-> FALSE],
       [name |-> "Image",       key |-> <<"i", "m", "a", "g", "e">>,       omitempty |-> FALSE],
       [name |-> "Slug",        key |-> <<"s", "l", "u", "g">>,        omitempty |-> FALSE],
       [name |-> "PublishDate", key |-> <<"p", "u", "b", "l", "i", "s", "h", "D", "a", "t", "e">>, omitempty |-> TRUE],
       [name |-> "Source",      key |-> <<"s", "o", "u", "r", "c", "e">>,      omitempty |-> TRUE] >>

\* Every field is written, the empty ones too.
WrittenFieldsAll(md) == RecordFields

\* The fields json.Marshal writes: an omitempty field that is empty is left out.
WrittenFields(md) ==
    SelectSeq(RecordFields, LAMBDA f : ~(f.omitempty /\ md[f.name] = <<>>))

\* json.MarshalIndent of one OGMetadata whose opening brace stands at depth.
MarshalRecord(md, depth) ==
    LET fields  == WrittenFields(md)
        line(f) == Indent(depth + 1) \o EncodeString(f.key) \o <<":", " ">> \o EncodeString(md[f.name])
    IN  <<"{", "\n">> \o JoinWith([k \in 1..Len(fields) |-> line(fields[k])], <<",", "\n">>)
            \o <<"\n">> \o Indent(depth) \o <<"}">>

\* json.MarshalIndent of an ArticlesCollection with the given articles.
MarshalCollection(articles) ==
    LET item(k) == Indent(2) \o MarshalRecord(articles[k], 2)
        array   == IF articles = <<>> THEN <<"[", "]">>
                   ELSE <<"[", "\n">> \o JoinWith([k \in 1..Len(articles) |-> item(k)], <<",", "\n">>)
                            \o <<"\n">> \o Indent(1) \o <<"]">>
    IN  <<"{", "\n">> \o Indent(1) \o EncodeString(<<"a", "r", "t", "i", "c", "l", "e", "s">>) \o <<":", " ">> \o array \o <<"\n", "}">>

(***************************************************************************)
(* extractSlug as a function under test: the URL is a concatenation of at  *)
(* most MaxSlugPieces pieces.                                              *)
(***************************************************************************)
SlugPieces ==
    { <<"h", "t", "t", "p", "s", ":", "/", "/">>,
      <<"e", "x", ".", "c", "o", "m">>,
      <<"/">>,
      <<"b", "l", "o", "g">>,
      <<"?">>,
      <<"#">> }

SlugURLs == {Concat(ps) : ps \in SeqsUpTo(SlugPieces, MaxSlugPieces)}

InitSlug ==
    /\ pc = "slug_call"
    /\ input = NoInput
    /\ url \in SlugURLs
    /\ doc = NoDoc
    /\ stack = <<>>
    /\ metadata = ZeroMetadata
    /\ ret = <<>>
    /\ walkDate = <<>>
    /\ NoFiles

CallExtractSlug ==
    /\ pc = "slug_call"
    /\ ret' = extractSlug(url)
    /\ pc' = "slug_ret"
    /\ UNCHANGED <<input, url, doc, stack, metadata, walkDate>>
    /\ UNCHANGED fileVars

NextSlug == CallExtractSlug

SpecSlug == InitSlug /\ [][NextSlug]_vars

(***************************************************************************)
(* extractDateFromURL as a function under test.  A URL holds either one    *)
(* date of one of the four forms, with year, month and day drawn from sets *)
(* that reach past the calendar, or at most MaxDateParts parts, each a     *)
(* date or a filler.                                                       *)
(***************************************************************************)
D2(n) == <<Digits[((n \div 10) % 10) + 1], Digits[(n % 10) + 1]>>

D4(n) == D2(n \div 100) \o D2(n % 100)

\* A date written in one of the URL forms /y/m/d/, /y-m-d, /d-m-y, /ymd.
FormPart(form, y, m, d) ==
    CASE form = 1 -> <<"/">> \o D4(y) \o <<"/">> \o D2(m) \o <<"/">> \o D2(d) \o <<"/">>
      [] form = 2 -> <<"/">> \o D4(y) \o <<"-">> \o D2(m) \o <<"-">> \o D2(d)
      [] form = 3 -> <<"/">> \o D2(d) \o <<"-">> \o D2(m) \o <<"-">> \o D4(y)
      [] form = 4 -> <<"/">> \o D4(y) \o D2(m) \o D2(d)

Forms == 1..4

Years == {1900, 2000, 2023, 2024}

Months == {0, 1, 2, 4, 12, 13}

Days == {0, 1, 28, 29, 30, 31, 32}

DateHost == <<"h", "t", "t", "p", "s", ":", "/", "/", "x", ".", "c", "o", "m">>

DateTails == {<<>>, <<"a">>}

SingleInputs ==
    {[kind |-> "single", form |-> f, y |-> y, m |-> m, d |-> d, tail |-> t] :
        f \in Forms, y \in Years, m \in Months, d \in Days, t \in DateTails}

\* Per form a valid date (a different one for each form) and an invalid one,
\* and two fillers.
SmallParts ==
    {FormPart(f, 2020 + f, f, 10 + f) : f \in Forms}
        \cup {FormPart(f, 2020 + f, 2, 30) : f \in Forms}
        \cup {<<"/">>, <<"a">>}

PartsInputs ==
    {[kind |-> "parts", parts |-> ps] : ps \in SeqsUpTo(SmallParts, MaxDateParts)}

DateURLOf(in) ==
    IF in.kind = "single"
    THEN DateHost \o FormPart(in.form, in.y, in.m, in.d) \o in.tail
    ELSE DateHost \o Concat(in.parts)

InitURLDate ==
    /\ pc = "date_call"
    /\ input \in SingleInputs \cup PartsInputs
    /\ url = DateURLOf(input)
    /\ doc = NoDoc
    /\ stack = <<>>
    /\ metadata = ZeroMetadata
    /\ ret = <<>>
    /\ walkDate = <<>>
    /\ NoFiles

CallExtractDateFromURL ==
    /\ pc = "date_call"
    /\ ret' = extractDateFromURL(url)
    /\ pc' = "date_ret"
    /\ UNCHANGED <<input, url, doc, stack, metadata, walkDate>>
    /\ UNCHANGED fileVars

NextURLDate == CallExtractDateFromURL

SpecURLDate == InitURLDate /\ [][NextURLDate]_vars

(***************************************************************************)
(* Properties of extractSlug.                                              *)
(***************************************************************************)
SchemeSepAt(u, i) ==
    /\ i + 2 <= Len(u)
    /\ u[i] = ":" /\ u[i + 1] = "/" /\ u[i + 2] = "/"

\* The text of u after its first "://", all of u when it holds none.
AfterScheme(u) ==
    IF \E i \in 1..Len(u) : SchemeSepAt(u, i)
    THEN LET i == CHOOSE i \in 1..Len(u) :
                      SchemeSepAt(u, i) /\ \A j \in 1..(i - 1) : ~SchemeSepAt(u, j)
         IN  SubSeq(u, i + 3, Len(u))
    ELSE u

HasChar(s, c) == \E k \in 1..Len(s) : s[k] = c

\* t[i..j] is a non-empty segment of t: a longest stretch without a slash.
IsSegmentAt(t, i, j) ==
    /\ 1 <= i /\ i <= j /\ j <= Len(t)
    /\ \A k \in i..j : t[k] # "/"
    /\ i = 1 \/ t[i - 1] = "/"
    /\ j = Len(t) \/ t[j + 1] = "/"

HasSegment(t) == \E i, j \in 1..Len(t) : IsSegmentAt(t, i, j)

\* s is the last non-empty segment of t: only slashes follow it.
IsLastSegment(t, s) ==
    \E i, j \in 1..Len(t) :
        /\ IsSegmentAt(t, i, j)
        /\ s = SubSeq(t, i, j)
        /\ \A k \in (j + 1)..Len(t) : t[k] = "/"

TrailingSlashURL(u) ==
    /\ u # <<>>
    /\ u[Len(u)] = "/"
    /\ ~HasChar(u, "?")
    /\ ~HasChar(u, "#")
    /\ HasSegment(AfterScheme(u))

\* C7: for a URL that ends with a slash and holds no query or fragment,
\* extractSlug returns the last non-empty slash-separated segment of the URL
\* (of its text after the scheme), whatever number of empty segments follow it.
C7_TrailingSlashLastSegment ==
    (pc = "slug_ret" /\ TrailingSlashURL(url)) => IsLastSegment(AfterScheme(url), ret)

\* C7 witness: a URL ending in two slashes, for which the backward scan ran,
\* gave the segment before them.
C7_Witness ==
    /\ pc = "slug_ret"
    /\ TrailingSlashURL(url)
    /\ Len(url) >= 2 /\ url[Len(url) - 1] = "/"
    /\ ret = <<"b", "l", "o", "g">>

HttpsScheme == <<"h", "t", "t", "p", "s", ":", "/", "/">>

\* A scheme followed by a host only.
BareDomain(u) ==
    /\ Len(u) > Len(HttpsScheme)
    /\ SubSeq(u, 1, Len(HttpsScheme)) = HttpsScheme
    /\ \A k \in (Len(HttpsScheme) + 1)..Len(u) : u[k] \notin {"/", "?", "#"}

HostOf(u) == SubSeq(u, Len(HttpsScheme) + 1, Len(u))

\* s is the first dot-separated label of host.
IsFirstLabel(host, s) ==
    /\ ~HasChar(s, ".")
    /\ Len(s) <= Len(host)
    /\ SubSeq(host, 1, Len(s)) = s
    /\ Len(s) = Len(host) \/ host[Len(s) + 1] = "."

\* C8: for a URL that is a scheme followed by a host only, extractSlug returns
\* the first dot-separated label of the host.
C8_BareDomainFirstLabel ==
    (pc = "slug_ret" /\ BareDomain(url)) => IsFirstLabel(HostOf(url), ret)

\* u cut before its first '?' or '#'.
BeforeQueryOrFragment(u) ==
    IF \E k \in 1..Len(u) : u[k] \in {"?", "#"}
    THEN LET k == CHOOSE k \in 1..Len(u) :
                      /\ u[k] \in {"?", "#"}
                      /\ \A j \in 1..(k - 1) : u[j] \notin {"?", "#"}
         IN  SubSeq(u, 1, k - 1)
    ELSE u

\* C9: the slug of a URL is the slug of the URL cut before its first '?' or
\* '#', with or without a scheme and whatever the query and fragment hold.
C9_QueryNeverInfluencesSlug ==
    pc = "slug_ret" => ret = extractSlug(BeforeQueryOrFragment(url))

(***************************************************************************)
(* Properties of extractDateFromURL.  The four URL forms and the calendar  *)
(* are stated here on their own, apart from the patterns and the parser of *)
(* the code.                                                               *)
(***************************************************************************)
DigitChars == {"0", "1", "2", "3", "4", "5", "6", "7", "8", "9"}

\* The URL forms in the order of their priority; Y, M and D stand for a digit
\* of the year, the month and the day.
FormTemplates ==
    << <<"/", "Y", "Y", "Y", "Y", "/", "M", "M", "/", "D", "D", "/">>,
       <<"/", "Y", "Y", "Y", "Y", "-", "M", "M", "-", "D", "D">>,
       <<"/", "D", "D", "-", "M", "M", "-", "Y", "Y", "Y", "Y">>,
       <<"/", "Y", "Y", "Y", "Y", "M", "M", "D", "D">> >>

\* s reads as form f from position i on.
FormAt(f, s, i) ==
    LET t == FormTemplates[f]
    IN  /\ i + Len(t) - 1 <= Len(s)
        /\ \A k \in 1..Len(t) :
               IF t[k] \in {"Y", "M", "D"} THEN s[i + k - 1] \in DigitChars
               ELSE s[i + k - 1] = t[k]

\* The leftmost position at which s reads as form f, 0 if there is none.
LeftmostOf(f, s) ==
    IF \E i \in 1..Len(s) : FormAt(f, s, i)
    THEN CHOOSE i \in 1..Len(s) : FormAt(f, s, i) /\ \A j \in 1..(i - 1) : ~FormAt(f, s, j)
    ELSE 0

\* The digits of s that stand at the places of `letter` when form f is read
\* from position i on.
FieldAt(f, s, i, letter) ==
    LET t     == FormTemplates[f]
        first == CHOOSE k \in 1..Len(t) : t[k] = letter /\ \A j \in 1..(k - 1) : t[j] # letter
        n     == Cardinality({k \in 1..Len(t) : t[k] = letter})
    IN  SubSeq(s, i + first - 1, i + first + n - 2)

\* The date read as form f at position i, written year-month-day.
IsoDateAt(f, s, i) ==
    FieldAt(f, s, i, "Y") \o <<"-">> \o FieldAt(f, s, i, "M") \o <<"-">> \o FieldAt(f, s, i, "D")

MonthLengths == <<31, 28, 31, 30, 31, 30, 31, 31, 30, 31, 30, 31>>

LeapYear(y) == (y % 4 = 0 /\ y % 100 # 0) \/ y % 400 = 0

\* Year y, month m, day d is a day of the calendar.
RealYMD(y, m, d) ==
    /\ m \in 1..12
    /\ d >= 1
    /\ d <= MonthLengths[m] + (IF m = 2 /\ LeapYear(y) THEN 1 ELSE 0)

\* ds is ten characters YYYY-MM-DD that name a day of the calendar.
RealIsoDate(ds) ==
    /\ Len(ds) = 10
    /\ \A k \in {1, 2, 3, 4, 6, 7, 9, 10} : ds[k] \in DigitChars
    /\ ds[5] = "-" /\ ds[8] = "-"
    /\ RealYMD(Atoi(SubSeq(ds, 1, 4)), Atoi(SubSeq(ds, 6, 7)), Atoi(SubSeq(ds, 9, 10)))

\* The forms whose leftmost occurrence in s is a day of the calendar.
GoodForms(s) ==
    {f \in 1..4 : LeftmostOf(f, s) # 0 /\ RealIsoDate(IsoDateAt(f, s, LeftmostOf(f, s)))}

\* C4: the result is the date of the first form, in the order /Y/M/D/, /Y-M-D,
\* /D-M-Y, /YMD, whose match in the URL is a calendar date, wherever in the URL
\* the forms are matched; it is empty when no form has one.
C4_PatternPriority ==
    pc = "date_ret" =>
        IF GoodForms(url) = {} THEN ret = <<>>
        ELSE LET f == CHOOSE f \in GoodForms(url) : \A g \in GoodForms(url) : f <= g
             IN  ret = IsoDateAt(f, url, LeftmostOf(f, url))

\* C4 witness: a form of higher priority matched further right than a form of
\* lower priority, both calendar dates, and the date of the former returned.
C4_Witness ==
    /\ pc = "date_ret"
    /\ \E f, g \in GoodForms(url) :
           /\ f < g
           /\ LeftmostOf(f, url) > LeftmostOf(g, url)
           /\ ret = IsoDateAt(f, url, LeftmostOf(f, url))
           /\ ret # IsoDateAt(g, url, LeftmostOf(g, url))

\* C5: extractDateFromURL returns the empty string or ten characters
\* YYYY-MM-DD that name a day of the calendar.
C5_EmptyOrRealDate ==
    pc = "date_ret" => (ret = <<>> \/ RealIsoDate(ret))

\* C5 witness: a URL holding February 30 in a date form, and nothing returned.
C5_Witness ==
    /\ pc = "date_ret"
    /\ input.kind = "single"
    /\ input.m = 2 /\ input.d = 30
    /\ LeftmostOf(input.form, url) # 0
    /\ ret = <<>>

\* C6: a URL whose only date-like part is a calendar date y, m, d written as
\* /y/m/d/, /y-m-d, /d-m-y or /ymd gives "y-m-d", the year first.
C6_FormsNormalised ==
    (pc = "date_ret" /\ input.kind = "single" /\ RealYMD(input.y, input.m, input.d)) =>
        ret = D4(input.y) \o <<"-">> \o D2(input.m) \o <<"-">> \o D2(input.d)

\* C6 witness: a leap day written day first, returned year first.
C6_Witness ==
    /\ pc = "date_ret"
    /\ input.kind = "single"
    /\ input.form = 3 /\ input.y = 2024 /\ input.m = 2 /\ input.d = 29
    /\ ret = <<"2", "0", "2", "4", "-", "0", "2", "-", "2", "9">>

\* s reads as form f somewhere, and where it does so first it names no day of
\* the calendar.
LeftmostInvalid(f, s) ==
    /\ LeftmostOf(f, s) # 0
    /\ ~RealIsoDate(IsoDateAt(f, s, LeftmostOf(f, s)))

\* The date the forms of F give for s, in their priority, none when the first
\* occurrence of none of them is a day of the calendar.
DateOfForms(s, F) ==
    LET good == GoodForms(s) \cap F
    IN  IF good = {} THEN <<>>
        ELSE LET f == CHOOSE f \in good : \A g \in good : f <= g
             IN  IsoDateAt(f, s, LeftmostOf(f, s))

\* s reads as form f, naming a day of the calendar, right of its first
\* occurrence.
LaterValid(f, s) ==
    {i \in 1..Len(s) : /\ i > LeftmostOf(f, s)
                       /\ FormAt(f, s, i)
                       /\ RealIsoDate(IsoDateAt(f, s, i))}

\* C16: a form whose first occurrence in the URL is no calendar date gives
\* nothing, whatever occurrences of it follow: the result is what the other
\* forms give in their priority, a date or the empty string, never an error.
C16_OnlyLeftmostMatch ==
    pc = "date_ret" =>
        \A f \in 1..4 :
            LeftmostInvalid(f, url) =>
                /\ ret = DateOfForms(url, (1..4) \ {f})
                /\ ret = <<>> \/ RealIsoDate(ret)

\* C16 witness: a form occurs first with an impossible date and again with a
\* calendar date, and the result is the date of a form of lower priority.
C16_Witness ==
    /\ pc = "date_ret"
    /\ \E f, g \in 1..4 :
           /\ f < g
           /\ LeftmostInvalid(f, url)
           /\ LaterValid(f, url) # {}
           /\ g \in GoodForms(url)
           /\ ret = IsoDateAt(g, url, LeftmostOf(g, url))
           /\ \A i \in LaterValid(f, url) : ret # IsoDateAt(f, url, i)

(***************************************************************************)
(* The pages and URLs extractOGMetadata is run on.  A page is a document   *)
(* node over at most MaxNodes elements drawn from Leaves; a stretch of     *)
(* them may stand inside a div.                                            *)
(***************************************************************************)
Attr(key, val) == [Key |-> key, Val |-> val]

Node(type, data, attr, kids, note) ==
    [Type |-> type, Data |-> data, Attr |-> attr, Kids |-> kids, Note |-> note]

\* What a leaf is: the element, the text inside it (for a script), and the
\* note: the kind of date source it is and the date it carries.
Leaf(data, attr, hasText, text, kind, date) ==
    [Data |-> data, Attr |-> attr, hasText |-> hasText, text |-> text,
     Note |-> [kind |-> kind, date |-> date]]

NoNote == [kind |-> "none", date |-> <<>>]

MetaPublished ==
    Leaf("meta", <<Attr("property", "article:published_time"), Attr("content", <<"d", "1">>)>>,
         FALSE, <<>>, "meta", <<"d", "1">>)

MetaPubdate ==
    Leaf("meta", <<Attr("content", <<"d", "2">>), Attr("name", "pubdate")>>,
         FALSE, <<>>, "meta", <<"d", "2">>)

MetaTitle ==
    Leaf("meta", <<Attr("property", "og:title"), Attr("content", <<"T">>)>>,
         FALSE, <<>>, "none", <<>>)

ScriptDated ==
    Leaf("script", <<Attr("type", "application/ld+json")>>,
         TRUE, <<"{", "\"", "@", "t", "y", "p", "e", "\"", ":", "\"", "A", "r", "t", "i", "c", "l", "e", "\"", ",", "\"", "d", "a", "t", "e", "P", "u", "b", "l", "i", "s", "h", "e", "d", "\"", ":", "\"", "j", "1", "\"", "}">>, "json", <<"j", "1">>)

ScriptTruncated ==
    Leaf("script", <<Attr("type", "application/ld+json")>>,
         TRUE, <<"{", "\"", "d", "a", "t", "e", "P", "u", "b", "l", "i", "s", "h", "e", "d", "\"", ":", "\"", "j", "2", "\"">>, "badjson", <<>>)

ScriptArray ==
    Leaf("script", <<Attr("type", "application/json")>>,
         TRUE, <<"[", "{", "\"", "d", "a", "t", "e", "P", "u", "b", "l", "i", "s", "h", "e", "d", "\"", ":", "\"", "j", "3", "\"", "}", "]">>, "badjson", <<>>)

ScriptString ==
    Leaf("script", <<Attr("type", "application/ld+json")>>,
         TRUE, <<"\"", "j", "4", "\"">>, "badjson", <<>>)

ScriptNumber ==
    Leaf("script", <<Attr("type", "application/json")>>,
         TRUE, <<"2", "0", "2", "3">>, "badjson", <<>>)

\* A date meta element without a content attribute.
MetaNoContent ==
    Leaf("meta", <<Attr("name", "DC.date.issued")>>, FALSE, <<>>, "none", <<>>)

\* A dated object in a script that is not of a JSON type.
ScriptNotJSON ==
    Leaf("script", <<Attr("type", "text/javascript")>>,
         TRUE, <<"{", "\"", "d", "a", "t", "e", "P", "u", "b", "l", "i", "s", "h", "e", "d", "\"", ":", "\"", "j", "5", "\"", "}">>, "none", <<>>)

\* A JSON script without any text in it.
ScriptEmpty ==
    Leaf("script", <<Attr("type", "application/ld+json")>>, FALSE, <<>>, "none", <<>>)

Leaves ==
    {MetaPublished, MetaPubdate, MetaTitle, MetaNoContent, ScriptDated,
     ScriptTruncated, ScriptArray, ScriptString, ScriptNumber,
     ScriptNotJSON, ScriptEmpty}

\* The page over the leaves ls, those from a to b inside a div (none when
\* a = 0).  Position 1 is the document node, 1 + k the k-th leaf, then the
\* div, then the text nodes of the scripts.
BuildDoc(ls, a, b) ==
    LET n       == Len(ls)
        wrapped == a # 0
        divAt   == n + 2
        base    == IF wrapped THEN n + 2 ELSE n + 1
        texts   == {k \in 1..n : ls[k].hasText}
        textAt(k) == base + Cardinality({j \in texts : j <= k})
        leafAt(k) == k + 1
        ids(from, to) == [k \in 1..(to - from + 1) |-> leafAt(from + k - 1)]
        rootKids == IF wrapped THEN ids(1, a - 1) \o <<divAt>> \o ids(b + 1, n)
                    ELSE ids(1, n)
        leafNode(k) == Node("Element", ls[k].Data, ls[k].Attr,
                            IF ls[k].hasText THEN <<textAt(k)>> ELSE <<>>, ls[k].Note)
        textOf(p) == LET k == CHOOSE k \in texts : textAt(k) = p
                     IN  Node("Text", ls[k].text, <<>>, <<>>, NoNote)
        size == base + Cardinality(texts)
    IN  [p \in 1..size |->
            IF p = 1 THEN Node("Document", "", <<>>, rootKids, NoNote)
            ELSE IF p <= n + 1 THEN leafNode(p - 1)
            ELSE IF wrapped /\ p = divAt THEN Node("Element", "div", <<>>, ids(a, b), NoNote)
            ELSE textOf(p)]

\* No div, or a div around the leaves from a to b.
Wraps(n) == {<<0, 0>>} \cup {w \in (1..n) \X (1..n) : w[1] <= w[2]}

DocsOver(leaves) ==
    UNION {{BuildDoc(ls, w[1], w[2]) : w \in Wraps(Len(ls))} : ls \in SeqsUpTo(leaves, MaxNodes)}

\* A URL without any date, one with a date of the first form, one whose only
\* date-like part is no calendar date.
PageURLs ==
    { <<"h", "t", "t", "p", "s", ":", "/", "/", "x", ".", "c", "o", "m", "/", "p">>,
      <<"h", "t", "t", "p", "s", ":", "/", "/", "x", ".", "c", "o", "m", "/", "2", "0", "2", "3", "/", "0", "5", "/", "1", "5", "/", "p">>,
      <<"h", "t", "t", "p", "s", ":", "/", "/", "x", ".", "c", "o", "m", "/", "2", "0", "2", "3", "-", "0", "2", "-", "3", "0", "-", "p">> }

(***************************************************************************)
(* extractOGMetadata(url): the slug, the fetch and the parse, the markup   *)
(* walk node by node, the URL fallback and the return.                     *)
(***************************************************************************)
Init ==
    /\ pc = "start"
    /\ input = NoInput
    /\ url \in PageURLs
    /\ doc \in DocsOver(Leaves)
    /\ stack = <<>>
    /\ metadata = ZeroMetadata
    /\ ret = <<>>
    /\ walkDate = <<>>
    /\ NoFiles

\* Lines 72-75.
ExtractSlugStep ==
    /\ pc = "start"
    /\ metadata' = [ZeroMetadata EXCEPT !.Slug = extractSlug(url)]
    /\ pc' = "fetch"
    /\ UNCHANGED <<input, url, doc, stack, ret, walkDate>>
    /\ UNCHANGED fileVars

\* Lines 78-92: http.Get fails, the status is not 200 or html.Parse fails;
\* extractOGMetadata returns the error.
FetchFail ==
    /\ pc = "fetch"
    /\ pc' = "failed"
    /\ UNCHANGED <<input, url, doc, stack, metadata, ret, walkDate>>
    /\ UNCHANGED fileVars

\* Lines 78-92 and 148: the page is fetched and parsed, and the walk starts at
\* the document node.
FetchOK ==
    /\ pc = "fetch"
    /\ pc' = "walk"
    /\ stack' = <<1>>
    /\ UNCHANGED <<input, url, doc, metadata, ret, walkDate>>
    /\ UNCHANGED fileVars

\* Lines 96-146: one call of extractMetadata, on the node that is next.
VisitNode ==
    /\ pc = "walk"
    /\ stack # <<>>
    /\ LET n == doc[Head(stack)]
       IN  /\ metadata' = ProcessNode(doc, n, metadata)
           /\ stack' = PushKids(n.Kids, Tail(stack))
    /\ UNCHANGED <<pc, input, url, doc, ret, walkDate>>
    /\ UNCHANGED fileVars

\* Lines 150-155: the walk is over; the URL fallback and the return.
ReturnMetadata ==
    /\ pc = "walk"
    /\ stack = <<>>
    /\ walkDate' = metadata.PublishDate
    /\ metadata' = DateFallback(metadata, url)
    /\ pc' = "done"
    /\ UNCHANGED <<input, url, doc, stack, ret>>
    /\ UNCHANGED fileVars

Next ==
    \/ ExtractSlugStep
    \/ FetchFail
    \/ FetchOK
    \/ VisitNode
    \/ ReturnMetadata

Spec == Init /\ [][Next]_vars

(***************************************************************************)
(* Properties of the markup walk and of the URL fallback.                  *)
(***************************************************************************)
\* The nodes of page d below and including p, a node before its children and
\* the children in their order: the order of the start tags in the markup.
RECURSIVE PreOrderFrom(_, _)
PreOrderFrom(d, p) ==
    <<p>> \o Concat([k \in 1..Len(d[p].Kids) |-> PreOrderFrom(d, d[p].Kids[k])])

DocumentOrder(d) == PreOrderFrom(d, 1)

\* The dates the sources of the given kinds carry, in document order.
SourceDates(d, kinds) ==
    LET order == DocumentOrder(d)
        at    == SelectSeq(order, LAMBDA p : d[p].Note.kind \in kinds)
    IN  [k \in 1..Len(at) |-> d[at[k]].Note.date]

FirstOr(s, def) == IF s = <<>> THEN def ELSE s[1]

WalkOver == pc = "walk" /\ stack = <<>>

DateInURL(u) ==
    IF GoodForms(u) = {} THEN <<>>
    ELSE LET f == CHOOSE f \in GoodForms(u) : \A g \in GoodForms(u) : f <= g
         IN  IsoDateAt(f, u, LeftmostOf(f, u))

\* C2: a date of a meta tag is chosen over a date of a JSON script, that one
\* over a date in the URL; a strategy decides only when those before it found
\* no date.
C2_StrategiesInPreference ==
    pc = "done" =>
        metadata.PublishDate =
            FirstOr(SourceDates(doc, {"meta"}),
                    FirstOr(SourceDates(doc, {"json"}), DateInURL(url)))

\* C3: the record returned carries the date the walk found when it found one,
\* and the date of the URL, possibly none, when it found none.
C3_URLFallbackOnlyWhenUnset ==
    pc = "done" =>
        /\ walkDate # <<>> => metadata.PublishDate = walkDate
        /\ walkDate = <<>> => metadata.PublishDate = DateInURL(url)

\* C3 witness: the walk found no date, the URL holds one and it is returned.
C3_Witness ==
    /\ pc = "done"
    /\ walkDate = <<>>
    /\ metadata.PublishDate = <<"2", "0", "2", "3", "-", "0", "5", "-", "1", "5">>

\* The node the walk visits next is a JSON script whose text is malformed JSON
\* or JSON that is no object.
AtBadJSON ==
    /\ pc = "walk"
    /\ stack # <<>>
    /\ doc[Head(stack)].Note.kind = "badjson"

\* C10: visiting a JSON script whose text is malformed or is an array, a
\* string or a number leaves every field of the record as it was, and the walk
\* goes on with the nodes that follow.
C10_BadJSONChangesNothing ==
    [][AtBadJSON =>
         /\ metadata' = metadata
         /\ pc' = "walk"
         /\ stack' = doc[Head(stack)].Kids \o Tail(stack)]_vars

\* C10 witness: a script with bad JSON stood before any date source, and the
\* walk ended with the slug it started with and with the date of a source that
\* followed the script.
C10_Witness ==
    /\ WalkOver
    /\ metadata.Slug = <<"p">>
    /\ LET order == DocumentOrder(doc)
       IN  \E i, j \in 1..Len(order) :
               /\ i < j
               /\ doc[order[i]].Note.kind = "badjson"
               /\ doc[order[j]].Note.kind \in {"meta", "json"}
               /\ \A k \in 1..(j - 1) : doc[order[k]].Note.kind \notin {"meta", "json"}
               /\ metadata.PublishDate = doc[order[j]].Note.date

(***************************************************************************)
(* extractOGMetadata on pages that carry OpenGraph tags.  The note of an   *)
(* og tag names the tag and holds its value.                               *)
(***************************************************************************)
OgTitle ==
    Leaf("meta", <<Attr("property", "og:title"), Attr("content", <<"T">>)>>,
         FALSE, <<>>, "og:title", <<"T">>)

OgUrl ==
    Leaf("meta", <<Attr("property", "og:url"), Attr("content", <<"h", "t", "t", "p", "s", ":", "/", "/", "a", ".", "c", "o", "m", "/", "q">>)>>,
         FALSE, <<>>, "og:url", <<"h", "t", "t", "p", "s", ":", "/", "/", "a", ".", "c", "o", "m", "/", "q">>)

OgDescription ==
    Leaf("meta", <<Attr("content", <<"D">>), Attr("property", "og:description")>>,
         FALSE, <<>>, "og:description", <<"D">>)

\* A meta element the switch does not know.
MetaViewport ==
    Leaf("meta", <<Attr("name", "viewport"), Attr("content", <<"w">>)>>, FALSE, <<>>, "none", <<>>)

\* A link element naming another URL of the page.
LinkCanonical ==
    Leaf("link", <<Attr("rel", "canonical"), Attr("href", <<"h", "t", "t", "p", "s", ":", "/", "/", "a", ".", "c", "o", "m", "/", "c">>)>>, FALSE, <<>>, "none", <<>>)

\* A JSON-LD object without any date field.
ScriptUndated ==
    Leaf("script", <<Attr("type", "application/ld+json")>>,
         TRUE, <<"{", "\"", "@", "t", "y", "p", "e", "\"", ":", "\"", "A", "r", "t", "i", "c", "l", "e", "\"", ",", "\"", "u", "r", "l", "\"", ":", "\"", "h", "t", "t", "p", "s", ":", "/", "/", "a", ".", "c", "o", "m", "/", "j", "\"", "}">>, "none", <<>>)

RecordLeaves ==
    {OgTitle, OgUrl, OgDescription, MetaViewport, LinkCanonical, ScriptUndated, MetaPublished}

InitRecord ==
    /\ pc = "start"
    /\ input = NoInput
    /\ url \in PageURLs
    /\ doc \in DocsOver(RecordLeaves)
    /\ stack = <<>>
    /\ metadata = ZeroMetadata
    /\ ret = <<>>
    /\ walkDate = <<>>
    /\ NoFiles

SpecRecord == InitRecord /\ [][Next]_vars

\* The notes of the given kinds on page d, in document order.
NotesOf(d, kinds) ==
    LET at == SelectSeq(DocumentOrder(d), LAMBDA p : d[p].Note.kind \in kinds)
    IN  [k \in 1..Len(at) |-> d[at[k]].Note]

RecognisedKinds ==
    {"og:url", "og:title", "og:description", "og:image", "og:site_name", "meta", "json"}

\* The only recognised tags of page d are one og:title and one og:url.
OnlyTitleAndUrl(d) ==
    /\ Len(NotesOf(d, RecognisedKinds)) = 2
    /\ Len(NotesOf(d, {"og:title"})) = 1
    /\ Len(NotesOf(d, {"og:url"})) = 1

\* No part of u reads as one of the four date forms.
NoDatePattern(u) == \A f \in 1..4 : LeftmostOf(f, u) = 0

\* C11: for a page whose only recognised tags are og:title=T and og:url=U and
\* an input URL without a date pattern, the record returned has title T, url U,
\* no publishDate (none in its JSON output either), nothing in the other
\* fields, and the slug of the input URL; from the first step to the last, on
\* every page, the slug is extractSlug of the input URL.
C11_EndToEndRecord ==
    /\ pc # "start" => metadata.Slug = extractSlug(url)
    /\ (pc = "done" /\ OnlyTitleAndUrl(doc) /\ NoDatePattern(url)) =>
           /\ metadata.Title = NotesOf(doc, {"og:title"})[1].date
           /\ metadata.URL = NotesOf(doc, {"og:url"})[1].date
           /\ metadata.PublishDate = <<>>
           /\ metadata.Description = <<>> /\ metadata.Image = <<>> /\ metadata.Source = <<>>
           /\ Index(MarshalRecord(metadata, 0), <<"p", "u", "b", "l", "i", "s", "h", "D", "a", "t", "e">>) = 0

\* C11 witness: the page of the claim inside a div, og:url naming another
\* address than the input URL, and the record returned.
C11_Witness ==
    /\ pc = "done"
    /\ OnlyTitleAndUrl(doc)
    /\ NoDatePattern(url)
    /\ \E p \in 1..Len(doc) : doc[p].Data = "div"
    /\ metadata.Title = <<"T">>
    /\ metadata.URL = <<"h", "t", "t", "p", "s", ":", "/", "/", "a", ".", "c", "o", "m", "/", "q">>
    /\ metadata.Slug = <<"p">>
    /\ MarshalRecord(metadata, 0) =
           <<"{", "\n">> \o <<" ", " ", "\"", "u", "r", "l", "\"", ":", " ", "\"", "h", "t", "t", "p", "s", ":", "/", "/", "a", ".", "c", "o", "m", "/", "q", "\"", ",">> \o <<"\n">>
               \o <<" ", " ", "\"", "t", "i", "t", "l", "e", "\"", ":", " ", "\"", "T", "\"", ",">> \o <<"\n">>
               \o <<" ", " ", "\"", "d", "e", "s", "c", "r", "i", "p", "t", "i", "o", "n", "\"", ":", " ", "\"", "\"", ",">> \o <<"\n">>
               \o <<" ", " ", "\"", "i", "m", "a", "g", "e", "\"", ":", " ", "\"", "\"", ",">> \o <<"\n">>
               \o <<" ", " ", "\"", "s", "l", "u", "g", "\"", ":", " ", "\"", "p", "\"">> \o <<"\n", "}">>

(***************************************************************************)
(* encoding/json, as appendToJSONFile uses it to read the target file:     *)
(* json.Unmarshal of a text into an ArticlesCollection.  A key of the text *)
(* is matched with a field exactly or, failing that, without regard to the *)
(* case of its letters; keys that match no field are skipped; null leaves  *)
(* a field as it is; a value of another type than the field's is an error, *)
(* reported once the whole text is decoded.                                *)
(***************************************************************************)
UpperCase == <<"A", "B", "C", "D", "E", "F", "G", "H", "I", "J", "K", "L", "M", "N", "O", "P", "Q", "R", "S", "T", "U", "V", "W", "X", "Y", "Z">>

LowerCase == <<"a", "b", "c", "d", "e", "f", "g", "h", "i", "j", "k", "l", "m", "n", "o", "p", "q", "r", "s", "t", "u", "v", "w", "x", "y", "z">>

ToLower(c) ==
    IF \E k \in 1..26 : UpperCase[k] = c
    THEN LowerCase[CHOOSE k \in 1..26 : UpperCase[k] = c]
    ELSE c

\* bytes.EqualFold on the letters of the model
EqualFold(a, b) ==
    /\ Len(a) = Len(b)
    /\ \A k \in 1..Len(a) : ToLower(a[k]) = ToLower(b[k])

\* The position among keys of the one a key of the text stands for, 0 if none.
FieldFor(keys, key) ==
    LET exact == {k \in 1..Len(keys) : keys[k] = key}
        fold  == {k \in 1..Len(keys) : EqualFold(keys[k], key)}
    IN  IF exact # {} THEN CHOOSE k \in exact : TRUE
        ELSE IF fold # {} THEN CHOOSE k \in fold : \A j \in fold : k <= j
        ELSE 0

\* The keys with published_date, the key of the older program, for the date.
RecordKeysOlder ==
    [k \in 1..Len(RecordFields) |->
        IF RecordFields[k].name = "PublishDate"
        THEN <<"p", "u", "b", "l", "i", "s", "h", "e", "d", "_", "d", "a", "t", "e">>
        ELSE RecordFields[k].key]

RecordKeys == [k \in 1..Len(RecordFields) |-> RecordFields[k].key]

\* The members of an object decoded into an OGMetadata, from member i on: acc
\* holds the record so far and whether a type error was met.
RECURSIVE DecodeMembers(_, _, _)
DecodeMembers(items, i, acc) ==
    IF i > Len(items) THEN acc
    ELSE LET f == FieldFor(RecordKeys, items[i][1])
             v == items[i][2]
         IN  IF f = 0 \/ v.t = "null" THEN DecodeMembers(items, i + 1, acc)
             ELSE IF v.t = "string"
             THEN DecodeMembers(items, i + 1, [acc EXCEPT !.md[RecordFields[f].name] = v.s])
             ELSE DecodeMembers(items, i + 1, [acc EXCEPT !.err = TRUE])

\* One element of the articles array decoded into a fresh OGMetadata.
DecodeRecord(v) ==
    IF v.t = "object" THEN DecodeMembers(v.items, 1, [md |-> ZeroMetadata, err |-> FALSE])
    ELSE [md |-> ZeroMetadata, err |-> v.t # "null"]

\* The value of the articles key decoded into []OGMetadata.
DecodeArticles(v) ==
    IF v.t = "array"
    THEN LET rs == [k \in 1..Len(v.items) |-> DecodeRecord(v.items[k])]
         IN  [articles |-> [k \in 1..Len(rs) |-> rs[k].md],
              err      |-> \E k \in 1..Len(rs) : rs[k].err]
    ELSE [articles |-> <<>>, err |-> v.t # "null"]

\* The members of the top-level object, from member i on; a later articles
\* member replaces what an earlier one gave.
RECURSIVE DecodeCollection(_, _, _)
DecodeCollection(items, i, acc) ==
    IF i > Len(items) THEN acc
    ELSE IF FieldFor(<<<<"a", "r", "t", "i", "c", "l", "e", "s">>>>, items[i][1]) = 0 \/ items[i][2].t = "null"
    THEN DecodeCollection(items, i + 1, acc)
    ELSE LET a == DecodeArticles(items[i][2])
         IN  DecodeCollection(items, i + 1,
                 [articles |-> a.articles, err |-> acc.err \/ a.err])

\* json.Unmarshal(fileContent, &collection), line 327.
UnmarshalCollection(text) ==
    LET v == ParseValue(text)
    IN  IF ~v.ok \/ SkipSpace(v.rest) # <<>> THEN [articles |-> <<>>, err |-> TRUE]
        ELSE IF v.val.t = "object"
        THEN DecodeCollection(v.val.items, 1, [articles |-> <<>>, err |-> FALSE])
        ELSE [articles |-> <<>>, err |-> v.val.t # "null"]

(***************************************************************************)
(* Files (packages os, io, ioutil, filepath).  fs maps the path of every   *)
(* file that exists to its contents.                                       *)
(***************************************************************************)
Exists(f, path) == path \in DOMAIN f

\* A file system in which a file that exists is never replaced.
WithFileIfNew(f, path, data) ==
    IF path \in DOMAIN f THEN f
    ELSE [q \in (DOMAIN f) \cup {path} |-> IF q = path THEN data ELSE f[q]]

\* f with the file at path holding data, created if it did not exist.
WithFile(f, path, data) ==
    [q \in (DOMAIN f) \cup {path} |-> IF q = path THEN data ELSE f[q]]

\* A write that puts data behind what the file holds.
WriteAtEnd(old, data) == old \o data

\* What a file holding old holds after data was written at its start through
\* a descriptor opened on it: what it held beyond the data stays.
WriteAtStart(old, data) == data \o SubSeq(old, Len(data) + 1, Len(old))

\* filepath.Ext: from the last dot of the last element of path on; empty when
\* that element holds no dot.
Ext(path) ==
    LET dots == {i \in 1..Len(path) : path[i] = "." /\ \A j \in i..Len(path) : path[j] # "/"}
    IN  IF dots = {} THEN <<>> ELSE Drop(path, CHOOSE i \in dots : \A j \in dots : j <= i)

\* now.Format("20060102")
FormatDay(now) == D4(now.year) \o D2(now.month) \o D2(now.day)

\* A backup path that leaves the extension out.
createBackupPathNoExt(filePath, now) ==
    LET ext      == Ext(filePath)
        basePath == Take(filePath, Len(filePath) - Len(ext))
    IN  basePath \o <<".">> \o FormatDay(now) \o <<".", "b", "k", "p">>

\* Lines 356-364.
createBackupPath(filePath, now) ==
    LET timestamp == FormatDay(now)
        ext       == Ext(filePath)
        basePath  == Take(filePath, Len(filePath) - Len(ext))
    IN  basePath \o ext \o <<".">> \o timestamp \o <<".", "b", "k", "p">>

\* The new record put before the others.
AppendFirst(articles, md) == <<md>> \o articles

\* Line 339.
AppendRecord(articles, md) == Append(articles, md)

(***************************************************************************)
(* main and appendToJSONFile.  An invocation p of the program is           *)
(* proc[p]: pc says where it stands, nargs is len(os.Args), page what      *)
(* extractOGMetadata will return to it, filePath is os.Args[2]; metadata,  *)
(* backupPath and jsonData are the locals of the code; exit is the exit    *)
(* status (-1 while it runs), failed the call that failed, out what it     *)
(* printed.  The other fields are history, read by the properties only:    *)
(* before is the file system as the invocation found it, wrote says that   *)
(* it opened the target for writing, readFirst that it read the target     *)
(* before any other invocation opened it for writing, overlapped that it   *)
(* took a step while another invocation was running.                       *)
(*                                                                         *)
(* One step is one call that reads or writes the file system, with the     *)
(* computation that follows it; a call that can fail takes either outcome. *)
(***************************************************************************)
Procs == 1..MaxRuns

Running(q) == proc[q].pc \notin {"main", "exited"}

\* The locals l of invocation p after one of its steps.
Stepped(p, l) ==
    [l EXCEPT !.overlapped = @ \/ \E q \in (DOMAIN proc) \ {p} : Running(q)]

\* os.Exit(code) after printing lines.
Stop(l, code, what, lines) ==
    [l EXCEPT !.pc = "exited", !.exit = code, !.failed = what,
              !.out = @ \o lines, !.jsonData = <<>>]

\* Any number of arguments but none is accepted.
ArgsOKAtLeast(n) == n >= 3

\* Line 36.
ArgsOK(n) == n = 3

\* Lines 36-42: the number of arguments.
MainArgs(p) ==
    /\ proc[p].pc = "main"
    /\ proc' = [proc EXCEPT ![p] =
                   Stepped(p, IF ArgsOK(@.nargs)
                              THEN [@ EXCEPT !.pc = "extract", !.before = fs]
                              ELSE Stop([@ EXCEPT !.before = fs], 1, "args", <<"usage">>))]
    /\ UNCHANGED <<fs, today, input, walkVars>>

\* Lines 45-49: extractOGMetadata returns an error or the record.
MainExtract(p) ==
    /\ proc[p].pc = "extract"
    /\ proc' = [proc EXCEPT ![p] =
                   Stepped(p, IF @.page.ok
                              THEN [@ EXCEPT !.pc = "stat", !.metadata = proc[p].page.md]
                              ELSE Stop(@, 1, "extract", <<"error">>))]
    /\ UNCHANGED <<fs, today, input, walkVars>>

\* A branch that takes every existing file for a collection to read.
BranchOnExistence(exists, size) == IF exists THEN "backup_open" ELSE "write_open"

\* Line 312: an existing file that is not empty is backed up and read, anything
\* else starts a new collection.
BranchOnStat(exists, size) ==
    IF exists /\ size > 0 THEN "backup_open" ELSE "write_open"

\* Lines 306-314 and 331-345: os.Stat, which fails or tells whether the file
\* exists and its size; for a new collection the record is marshalled here.
AppendStat(p) ==
    /\ proc[p].pc = "stat"
    /\ \E ok \in BOOLEAN :
          LET path   == proc[p].filePath
              exists == Exists(fs, path)
              branch == BranchOnStat(exists, IF exists THEN Len(fs[path]) ELSE 0)
          IN  proc' = [proc EXCEPT ![p] =
                  Stepped(p, IF ~ok THEN Stop(@, 1, "stat", <<"error">>)
                             ELSE IF branch = "backup_open"
                             THEN [@ EXCEPT !.pc = branch,
                                            !.backupPath = createBackupPath(path, today)]
                             ELSE [@ EXCEPT !.pc = branch,
                                            !.jsonData = MarshalCollection(AppendRecord(<<>>, proc[p].metadata))])]
    /\ UNCHANGED <<fs, today, input, walkVars>>

\* Lines 368-372: os.Open of the target, which fails when there is no such
\* file and may fail otherwise.
BackupOpen(p) ==
    /\ proc[p].pc = "backup_open"
    /\ \E ok \in BOOLEAN :
          proc' = [proc EXCEPT ![p] =
              Stepped(p, IF ok /\ Exists(fs, @.filePath)
                         THEN [@ EXCEPT !.pc = "backup_create"]
                         ELSE Stop(@, 1, "backup", <<"error">>))]
    /\ UNCHANGED <<fs, today, input, walkVars>>

\* Lines 374-378: os.Create of the backup, which empties a file that exists.
BackupCreate(p) ==
    /\ proc[p].pc = "backup_create"
    /\ \E ok \in BOOLEAN :
          /\ proc' = [proc EXCEPT ![p] =
                 Stepped(p, IF ok THEN [@ EXCEPT !.pc = "backup_copy"]
                            ELSE Stop(@, 1, "backup", <<"error">>))]
          /\ fs' = IF ok THEN WithFile(fs, proc[p].backupPath, <<>>) ELSE fs
    /\ UNCHANGED <<today, input, walkVars>>

\* A copy whose error is not looked at.
BackupCopyUnchecked(p) ==
    /\ proc[p].pc = "backup_copy"
    /\ \E ok \in BOOLEAN :
          LET source == fs[proc[p].filePath]
              copied == IF ok THEN source ELSE Take(source, Len(source) \div 2)
              dest   == proc[p].backupPath
          IN  /\ proc' = [proc EXCEPT ![p] = Stepped(p, [@ EXCEPT !.pc = "read"])]
              /\ fs' = WithFile(fs, dest, WriteAtStart(fs[dest], copied))
    /\ UNCHANGED <<today, input, walkVars>>

\* Lines 380-385: io.Copy, which copies all of the target or fails after a
\* part of it.
BackupCopy(p) ==
    /\ proc[p].pc = "backup_copy"
    /\ \E ok \in BOOLEAN :
          LET source == fs[proc[p].filePath]
              copied == IF ok THEN source ELSE Take(source, Len(source) \div 2)
              dest   == proc[p].backupPath
          IN  /\ proc' = [proc EXCEPT ![p] =
                     Stepped(p, IF ok THEN [@ EXCEPT !.pc = "read"]
                                ELSE Stop(@, 1, "backup", <<"error">>))]
              /\ fs' = WithFile(fs, dest, WriteAtStart(fs[dest], copied))
    /\ UNCHANGED <<today, input, walkVars>>

\* Lines 321-345: ioutil.ReadFile, json.Unmarshal, append, json.MarshalIndent.
AppendRead(p) ==
    /\ proc[p].pc = "read"
    /\ \E ok \in BOOLEAN :
          LET collection == UnmarshalCollection(fs[proc[p].filePath])
          IN  proc' = [proc EXCEPT ![p] =
                  Stepped(p, IF ~ok THEN Stop(@, 1, "read", <<"error">>)
                             ELSE IF collection.err THEN Stop(@, 1, "parse", <<"error">>)
                             ELSE [@ EXCEPT !.pc = "write_open",
                                            !.readFirst = \A q \in (DOMAIN proc) \ {p} : ~proc[q].wrote,
                                            !.jsonData = MarshalCollection(AppendRecord(collection.articles, proc[p].metadata))])]
    /\ UNCHANGED <<fs, today, input, walkVars>>

\* Line 347, first half: ioutil.WriteFile opens the target, creating it or
\* emptying it.
WriteFileOpen(p) ==
    /\ proc[p].pc = "write_open"
    /\ \E ok \in BOOLEAN :
          /\ proc' = [proc EXCEPT ![p] =
                 Stepped(p, IF ok THEN [@ EXCEPT !.pc = "write_data", !.wrote = TRUE]
                            ELSE Stop(@, 1, "write", <<"error">>))]
          /\ fs' = IF ok THEN WithFile(fs, proc[p].filePath, <<>>) ELSE fs
    /\ UNCHANGED <<today, input, walkVars>>

\* Lines 347-352, second half: the text is written, all of it or, on an error,
\* a part of it.
WriteFileData(p) ==
    /\ proc[p].pc = "write_data"
    /\ \E ok \in BOOLEAN :
          LET path    == proc[p].filePath
              written == IF ok THEN proc[p].jsonData
                         ELSE Take(proc[p].jsonData, Len(proc[p].jsonData) \div 2)
          IN  /\ proc' = [proc EXCEPT ![p] =
                     Stepped(p, IF ok THEN [@ EXCEPT !.pc = "print"]
                                ELSE Stop(@, 1, "write", <<"error">>))]
              /\ fs' = WithFile(fs, path, WriteAtStart(fs[path], written))
    /\ UNCHANGED <<today, input, walkVars>>

\* Lines 58-61: printMetadata, the success line, and the end of main.
MainPrint(p) ==
    /\ proc[p].pc = "print"
    /\ proc' = [proc EXCEPT ![p] = Stepped(p, Stop(@, 0, "", <<"metadata", "success">>))]
    /\ UNCHANGED <<fs, today, input, walkVars>>

\* One step of invocation p once it has started.
RunStep(p) ==
    \/ MainExtract(p)
    \/ AppendStat(p)
    \/ BackupOpen(p)
    \/ BackupCreate(p)
    \/ BackupCopy(p)
    \/ AppendRead(p)
    \/ WriteFileOpen(p)
    \/ WriteFileData(p)
    \/ MainPrint(p)

(***************************************************************************)
(* The runs of main: the day, the target path, what the target and its     *)
(* backup hold at first, and for each run its arguments and what the       *)
(* extraction returns.                                                     *)
(***************************************************************************)
Day == [year |-> 2025, month |-> 4, day |-> 24]

TargetPaths == {<<"a", ".", "j", "s", "o", "n">>, <<"d", ".", "v", "/", "b">>}

\* The records of the model: one stored already, two that are extracted.
Record0 ==
    [ZeroMetadata EXCEPT !.URL = <<"u", "0">>, !.Title = <<"A">>, !.Slug = <<"s", "0">>]

RecordA ==
    [ZeroMetadata EXCEPT !.URL = <<"a", "?", "x", "&", "y">>, !.Title = <<"T">>, !.Slug = <<"p">>]

RecordB ==
    [ZeroMetadata EXCEPT !.URL = <<"b">>, !.Slug = <<"q">>, !.PublishDate = <<"2", "0", "2", "3", "-", "0", "5", "-", "1", "5">>,
                         !.Source = <<"S">>]

FetchFailed == [ok |-> FALSE, md |-> ZeroMetadata]

Pages == {FetchFailed, [ok |-> TRUE, md |-> RecordA], [ok |-> TRUE, md |-> RecordB]}

\* len(os.Args) is 3 for two arguments; with another number the page is never
\* asked for.
RunInputs ==
    {[nargs |-> n, page |-> FetchFailed] : n \in {2, 4}}
        \cup {[nargs |-> 3, page |-> pg] : pg \in Pages}

NewProc(in, path) ==
    [pc |-> "main", nargs |-> in.nargs, page |-> in.page, filePath |-> path,
     metadata |-> ZeroMetadata, backupPath |-> <<>>, jsonData |-> <<>>,
     exit |-> -1, failed |-> "", out |-> <<>>,
     before |-> <<>>, wrote |-> FALSE, readFirst |-> FALSE, overlapped |-> FALSE]

\* What the target is at first: kind says how it was made, articles are the
\* records it stores as a collection.
Target(kind, exists, text, articles) ==
    [kind |-> kind, exists |-> exists, text |-> text, articles |-> articles]

TargetAbsent == Target("absent", FALSE, <<>>, <<>>)

TargetEmpty == Target("empty", TRUE, <<>>, <<>>)

\* A collection as the program wrote it.
TargetWritten == Target("valid", TRUE, MarshalCollection(<<Record0, RecordB>>), <<Record0, RecordB>>)

\* A collection written by hand, with keys the program does not know.
TargetSample ==
    Target("valid", TRUE,
           <<"{", "\"", "a", "r", "t", "i", "c", "l", "e", "s", "\"", ":", "[", "{", "\"", "u", "r", "l", "\"", ":", "\"", "u", "0", "\"", ",", "\"", "t", "i", "t", "l", "e", "\"", ":", "\"", "A", "\"", ",", "\"", "d", "e", "s", "c", "r", "i", "p", "t", "i", "o", "n", "\"", ":", "\"", "\"", ",", "\"", "i", "m", "a", "g", "e", "\"", ":", "\"", "\"", ",", "\"", "s", "l", "u", "g", "\"", ":", "\"", "s", "0", "\"", ",", "\"", "p", "u", "b", "l", "i", "s", "h", "e", "d", "_", "d", "a", "t", "e", "\"", ":", "\"", "x", "\"", "}", "]", ",", "\"", "n", "\"", ":", "1", "}">>,
           <<Record0>>)

\* A text cut short.
TargetTruncated == Target("invalid", TRUE, <<"{", "\"", "a", "r", "t", "i", "c", "l", "e", "s", "\"", ":", "[", "{", "\"", "u", "r", "l", "\"", ":", "\"", "u", "0", "\"">>, <<>>)

\* JSON of another structure: an object where the array belongs.
TargetWrongType == Target("invalid", TRUE, <<"{", "\"", "a", "r", "t", "i", "c", "l", "e", "s", "\"", ":", "{", "\"", "u", "r", "l", "\"", ":", "\"", "u", "0", "\"", "}", "}">>, <<>>)

\* JSON without any articles.
TargetOther == Target("other", TRUE, <<"{", "\"", "p", "o", "s", "t", "s", "\"", ":", "[", "1", "]", "}">>, <<>>)

TargetFiles ==
    {TargetAbsent, TargetEmpty, TargetWritten, TargetSample, TargetTruncated,
     TargetWrongType, TargetOther}

\* What a backup left by an earlier run of the same day holds.
StaleBackup == <<"{", "\"", "a", "r", "t", "i", "c", "l", "e", "s", "\"", ":", "[", "]", "}">>

\* The file system at first: the target, and maybe a backup of the same day.
FilesAtFirst(path, t, stale) ==
    LET targets == IF t.exists THEN WithFile(<<>>, path, t.text) ELSE <<>>
    IN  IF stale THEN WithFile(targets, createBackupPath(path, Day), StaleBackup) ELSE targets

WalkIdle ==
    /\ pc = "idle"
    /\ url = <<>>
    /\ doc = NoDoc
    /\ stack = <<>>
    /\ metadata = ZeroMetadata
    /\ ret = <<>>
    /\ walkDate = <<>>

InitMain ==
    /\ WalkIdle
    /\ today = Day
    /\ \E path \in TargetPaths, t \in TargetFiles, stale \in BOOLEAN, ins \in [Procs -> RunInputs] :
          /\ input = [kind |-> "files", path |-> path, target |-> t, stale |-> stale]
          /\ fs = FilesAtFirst(path, t, stale)
          /\ proc = [p \in Procs |-> NewProc(ins[p], path)]

\* The runs follow one another: a run starts when those before it have ended.
Turn(p) == \A q \in Procs : q < p => proc[q].pc = "exited"

\* The start of a run in its turn.
StartInTurn(p) == Turn(p) /\ MainArgs(p)

NextMain ==
    \E p \in Procs :
        \/ StartInTurn(p)
        \/ RunStep(p)

SpecMain == InitMain /\ [][NextMain]_vars

(***************************************************************************)
(* Properties of main and appendToJSONFile in runs that follow one         *)
(* another.                                                                *)
(***************************************************************************)
\* The name the backup of the target has on the day of the model: the whole
\* target path, a dot, the day as YYYYMMDD, and .bkp.
BackupName == input.path \o <<".">> \o <<"2", "0", "2", "5", "0", "4", "2", "4">> \o <<".", "b", "k", "p">>

\* What file f holds at path, nothing when there is no such file.
Held(f, path) == IF Exists(f, path) THEN f[path] ELSE <<>>

\* Run p found the target existing and not empty.
FoundTarget(p) ==
    /\ proc[p].pc # "main"
    /\ Held(proc[p].before, input.path) # <<>>

\* This step is one of run p.
StepOf(p) == proc'[p] # proc[p]

\* This step changes what the target holds, or creates it.
TargetChanges ==
    \/ Exists(fs, input.path) # Exists(fs', input.path)
    \/ Held(fs, input.path) # Held(fs', input.path)

\* C12: a run that found the target existing and not empty changes it only
\* when the file named <target path>.<YYYYMMDD>.bkp exists and holds all that
\* the target held before this append; and when the run ends because the
\* backup could not be made, the target holds what it held before.
C12_BackupBeforeWrite ==
    [][\A p \in Procs :
          (FoundTarget(p) /\ StepOf(p)) =>
              /\ TargetChanges =>
                     /\ Exists(fs, BackupName)
                     /\ fs[BackupName] = proc[p].before[input.path]
              /\ proc'[p].failed = "backup" => Held(fs', input.path) = proc[p].before[input.path]
      ]_vars

\* C12 witness: a run has rewritten a target that held a collection, and the
\* backup, which held something else before, holds that collection.
C12_Witness ==
    \E p \in Procs :
        /\ proc[p].exit = 0
        /\ input.stale
        /\ input.target.kind = "valid"
        /\ proc[p].before[input.path] = input.target.text
        /\ proc[p].before[BackupName] # input.target.text
        /\ fs[BackupName] = input.target.text
        /\ fs[input.path] # input.target.text

\* No run stands inside main.
AllAtRest == \A p \in Procs : ~Running(p)

\* The records of the runs that ended with success, in the order of the runs.
Appended ==
    LET done == SelectSeq([p \in Procs |-> p], LAMBDA p : proc[p].exit = 0)
    IN  [k \in 1..Len(done) |-> proc[done[k]].page.md]

\* C13: between the runs and after them, when at least one run has succeeded
\* and none has failed while writing the target, the articles of the target
\* are those it stored at first followed by the records of the successful
\* runs, one for each, in the order of the runs.
C13_AppendOnly ==
    (/\ AllAtRest
     /\ Appended # <<>>
     /\ \A p \in Procs : proc[p].failed # "write") =>
        /\ Exists(fs, input.path)
        /\ UnmarshalCollection(fs[input.path]) =
               [articles |-> input.target.articles \o Appended, err |-> FALSE]

\* C13 witness: the same page was appended twice to a collection of one
\* record, and the target holds the three records.
C13_Witness ==
    /\ AllAtRest
    /\ input.target.articles = <<Record0>>
    /\ Appended = <<RecordA, RecordA>>
    /\ fs[input.path] = MarshalCollection(<<Record0, RecordA, RecordA>>)

\* Run p found no target, or an empty one.
FoundNoTarget(p) ==
    /\ proc[p].pc # "main"
    /\ Held(proc[p].before, input.path) = <<>>

\* This step leaves every file but the target as it is, and creates none.
OnlyTargetTouched ==
    /\ (DOMAIN fs') \subseteq (DOMAIN fs) \cup {input.path}
    /\ \A q \in (DOMAIN fs) \ {input.path} : Exists(fs', q) /\ fs'[q] = fs[q]

\* C14: a run that found no target or an empty one creates no backup, it
\* touches no file but the target, and once it has written the target the
\* target is a collection of exactly one record, the new one.
C14_NewFileNoBackup ==
    [][\A p \in Procs :
          (FoundNoTarget(p) /\ StepOf(p)) =>
              /\ OnlyTargetTouched
              /\ proc'[p].pc = "print" =>
                     UnmarshalCollection(fs'[input.path]) =
                         [articles |-> <<proc[p].page.md>>, err |-> FALSE]
      ]_vars

\* C14 witness: the first run found an empty file and no backup, and ended
\* with the target holding its record alone and still no backup.
C14_Witness ==
    /\ proc[1].exit = 0
    /\ input.target.kind = "empty"
    /\ DOMAIN fs = {input.path}
    /\ fs[input.path] =
           <<"{", "\n">> \o <<" ", " ", "\"", "a", "r", "t", "i", "c", "l", "e", "s", "\"", ":", " ", "[">> \o <<"\n">>
               \o <<" ", " ", " ", " ", "{">> \o <<"\n">>
               \o <<" ", " ", " ", " ", " ", " ", "\"", "u", "r", "l", "\"", ":", " ", "\"", "a", "?", "x", "\\", "u", "0", "0", "2", "6", "y", "\"", ",">> \o <<"\n">>
               \o <<" ", " ", " ", " ", " ", " ", "\"", "t", "i", "t", "l", "e", "\"", ":", " ", "\"", "T", "\"", ",">> \o <<"\n">>
               \o <<" ", " ", " ", " ", " ", " ", "\"", "d", "e", "s", "c", "r", "i", "p", "t", "i", "o", "n", "\"", ":", " ", "\"", "\"", ",">> \o <<"\n">>
               \o <<" ", " ", " ", " ", " ", " ", "\"", "i", "m", "a", "g", "e", "\"", ":", " ", "\"", "\"", ",">> \o <<"\n">>
               \o <<" ", " ", " ", " ", " ", " ", "\"", "s", "l", "u", "g", "\"", ":", " ", "\"", "p", "\"">> \o <<"\n">>
               \o <<" ", " ", " ", " ", "}">> \o <<"\n">>
               \o <<" ", " ", "]">> \o <<"\n", "}">>

\* Run p was given a wrong number of arguments.
WrongArity(p) == proc[p].nargs # 3

\* Run p has nothing to append: wrong arguments, or an extraction that fails.
NothingExtracted(p) == WrongArity(p) \/ ~proc[p].page.ok

\* How a run with nothing to append has ended: status 1 after the usage text
\* or after one error message.
EndedWithoutAppend(p) ==
    (proc[p].pc = "exited" /\ NothingExtracted(p)) =>
        /\ proc[p].exit # 0
        /\ proc[p].out = IF WrongArity(p) THEN <<"usage">> ELSE <<"error">>

\* This step prints the success output of run p.
PrintsSuccess(p) ==
    /\ \A k \in 1..Len(proc[p].out) : proc[p].out[k] # "success"
    /\ \E k \in 1..Len(proc'[p].out) : proc'[p].out[k] = "success"

\* The target is a collection whose last record is md.
LastStored(md) ==
    /\ Exists(fs, input.path)
    /\ LET c == UnmarshalCollection(fs[input.path])
       IN  ~c.err /\ c.articles # <<>> /\ c.articles[Len(c.articles)] = md

\* C15: a run with a wrong number of arguments or a failing extraction ends
\* with a non-zero status after the usage text or an error message, and none
\* of its steps creates or changes a file; a run prints its success output
\* only when the target holds its record as the last one, and ends with
\* status 0 then.
C15_FilesOnlyAfterExtraction ==
    /\ [](\A p \in Procs : EndedWithoutAppend(p))
    /\ [][\A p \in Procs :
             /\ (StepOf(p) /\ NothingExtracted(p)) => fs' = fs
             /\ (StepOf(p) /\ proc[p].pc \in {"main", "extract"}) => fs' = fs
             /\ PrintsSuccess(p) => (LastStored(proc[p].page.md) /\ proc'[p].exit = 0)
         ]_vars

\* C15 witness: the first run had three arguments, the second a page that
\* could not be fetched; both have ended and the collection is as it was.
C15_Witness ==
    /\ proc[1].nargs = 4 /\ proc[1].out = <<"usage">> /\ proc[1].exit = 1
    /\ proc[2].nargs = 3 /\ proc[2].out = <<"error">> /\ proc[2].exit = 1
    /\ proc[2].failed = "extract"
    /\ input.target.kind = "valid"
    /\ fs = FilesAtFirst(input.path, input.target, input.stale)

(***************************************************************************)
(* extractDateFromJSON as a function under test.  The text is an object of *)
(* at most MaxMembers members drawn from Members, whole or cut short; the  *)
(* record comes with or without a date.                                    *)
(***************************************************************************)
\* A member: its key, the type of its value, the characters of a string
\* value, and the text of the value.
Member(key, type, val, text) == [key |-> key, type |-> type, val |-> val, text |-> text]

Members ==
    { Member(<<"d", "a", "t", "e", "P", "u", "b", "l", "i", "s", "h", "e", "d">>, "string", <<"p", "1">>, <<"\"", "p", "1", "\"">>),
      Member(<<"d", "a", "t", "e", "P", "u", "b", "l", "i", "s", "h", "e", "d">>, "number", <<>>, <<"5">>),
      Member(<<"d", "a", "t", "e", "C", "r", "e", "a", "t", "e", "d">>, "string", <<"c", "1">>, <<"\"", "c", "1", "\"">>),
      Member(<<"d", "a", "t", "e", "C", "r", "e", "a", "t", "e", "d">>, "string", <<>>, <<"\"", "\"">>),
      Member(<<"p", "u", "b", "l", "i", "s", "h", "e", "d", "T", "i", "m", "e">>, "null", <<>>, <<"n", "u", "l", "l">>),
      Member(<<"d", "a", "t", "e", "M", "o", "d", "i", "f", "i", "e", "d">>, "string", <<"m", "1">>, <<"\"", "m", "1", "\"">>),
      Member(<<"d", "a", "t", "e", "M", "o", "d", "i", "f", "i", "e", "d">>, "object", <<>>, <<"{", "\"", "v", "\"", ":", "\"", "n", "1", "\"", "}">>),
      Member(<<"p", "u", "b", "D", "a", "t", "e">>, "string", <<"n", "o", " ", "d", "a", "t", "e">>, <<"\"", "n", "o", " ", "d", "a", "t", "e", "\"">>),
      Member(<<"@", "t", "y", "p", "e">>, "string", <<"A", "r", "t", "i", "c", "l", "e">>, <<"\"", "A", "r", "t", "i", "c", "l", "e", "\"">>),
      Member(<<"@", "t", "y", "p", "e">>, "string", <<"P", "e", "r", "s", "o", "n">>, <<"\"", "P", "e", "r", "s", "o", "n", "\"">>),
      Member(<<"@", "t", "y", "p", "e">>, "object", <<>>, <<"{", "\"", "v", "\"", ":", "\"", "n", "1", "\"", "}">>) }

\* The text of an object with the members ms; cut short, it lacks its end.
JSONTextOf(ms, cut) ==
    LET member(m) == EncodeString(m.key) \o <<":", " ">> \o m.text
        body      == JoinWith([k \in 1..Len(ms) |-> member(ms[k])], <<",">>)
    IN  IF cut THEN <<"{">> \o body ELSE <<"{">> \o body \o <<"}">>

\* A record that carries a title, with and without a date.
PriorRecords ==
    { [ZeroMetadata EXCEPT !.Title = <<"T">>],
      [ZeroMetadata EXCEPT !.Title = <<"T">>, !.PublishDate = <<"d", "0">>] }

InitJSONDate ==
    /\ pc = "json_call"
    /\ \E ms \in SeqsUpTo(Members, MaxMembers), cut \in BOOLEAN, prior \in PriorRecords :
          /\ input = [kind |-> "json", members |-> ms, cut |-> cut, prior |-> prior]
          /\ metadata = prior
    /\ url = <<>>
    /\ doc = NoDoc
    /\ stack = <<>>
    /\ ret = <<>>
    /\ walkDate = <<>>
    /\ NoFiles

CallExtractDateFromJSON ==
    /\ pc = "json_call"
    /\ metadata' = extractDateFromJSON(JSONTextOf(input.members, input.cut), metadata)
    /\ pc' = "json_ret"
    /\ UNCHANGED <<input, url, doc, stack, ret, walkDate>>
    /\ UNCHANGED fileVars

NextJSONDate == CallExtractDateFromJSON

SpecJSONDate == InitJSONDate /\ [][NextJSONDate]_vars

(***************************************************************************)
(* Properties of extractDateFromJSON.                                      *)
(***************************************************************************)
\* The date fields in the order of their precedence.
FieldPrecedence ==
    << <<"d", "a", "t", "e", "P", "u", "b", "l", "i", "s", "h", "e", "d">>, <<"d", "a", "t", "e", "C", "r", "e", "a", "t", "e", "d">>, <<"p", "u", "b", "l", "i", "s", "h", "e", "d", "T", "i", "m", "e">>, <<"d", "a", "t", "e", "M", "o", "d", "i", "f", "i", "e", "d">>, <<"p", "u", "b", "D", "a", "t", "e">> >>

\* The member that gives key its value in an object with the members ms: the
\* last one with that key.
ValueOf(ms, key) ==
    LET at == {k \in 1..Len(ms) : ms[k].key = key}
    IN  ms[CHOOSE k \in at : \A j \in at : j <= k]

HasKey(ms, key) == \E k \in 1..Len(ms) : ms[k].key = key

\* The positions in FieldPrecedence of the fields present with a string value.
StringFields(ms) ==
    {i \in 1..Len(FieldPrecedence) :
        HasKey(ms, FieldPrecedence[i]) /\ ValueOf(ms, FieldPrecedence[i]).type = "string"}

\* C17: called on a whole object with a record without date, the function
\* stores, as it stands, the value of the first of datePublished, dateCreated,
\* publishedTime, dateModified, pubDate that is present with a string value,
\* passing over those present with a value of another type, and changes
\* nothing when there is none; called with a record that has a date, it
\* changes nothing.
C17_FieldPrecedence ==
    (pc = "json_ret" /\ ~input.cut) =>
        LET ms    == input.members
            first == CHOOSE i \in StringFields(ms) : \A j \in StringFields(ms) : i <= j
        IN  metadata =
                IF input.prior.PublishDate = <<>> /\ StringFields(ms) # {}
                THEN [input.prior EXCEPT !.PublishDate = ValueOf(ms, FieldPrecedence[first]).val]
                ELSE input.prior

\* C17 witness: datePublished is a number, pubDate stands in the text before
\* dateModified, and the value of dateModified is stored.
C17_Witness ==
    /\ pc = "json_ret"
    /\ ~input.cut
    /\ Len(input.members) = 3
    /\ input.members[1].key = <<"d", "a", "t", "e", "P", "u", "b", "l", "i", "s", "h", "e", "d">> /\ input.members[1].type = "number"
    /\ input.members[2].key = <<"p", "u", "b", "D", "a", "t", "e">>
    /\ input.members[3].key = <<"d", "a", "t", "e", "M", "o", "d", "i", "f", "i", "e", "d">> /\ input.members[3].type = "string"
    /\ input.prior.PublishDate = <<>>
    /\ metadata.PublishDate = <<"m", "1">>

\* extractDateFromJSON with lines 219-227 taken out.
WithoutTypeBranch(jsonContent, md) ==
    LET r == Unmarshal(jsonContent)
    IN  IF r.err THEN md ELSE ScanDateFields(r.data, md, 1).md

\* The object says that it is an Article or a NewsArticle.
SaysArticle(ms) ==
    /\ HasKey(ms, <<"@", "t", "y", "p", "e">>)
    /\ ValueOf(ms, <<"@", "t", "y", "p", "e">>).val \in {<<"A", "r", "t", "i", "c", "l", "e">>, <<"N", "e", "w", "s", "A", "r", "t", "i", "c", "l", "e">>}

\* C18: for every text and every record, the record after the call is the one
\* the function without its @type branch gives.
C18_TypeBranchRedundant ==
    pc = "json_ret" =>
        metadata = WithoutTypeBranch(JSONTextOf(input.members, input.cut), input.prior)

\* C18 witness: the @type branch was taken (an Article whose first scan did
\* not return, the record having a date already) and the record is as it was.
C18_Witness ==
    /\ pc = "json_ret"
    /\ ~input.cut
    /\ SaysArticle(input.members)
    /\ StringFields(input.members) # {}
    /\ input.prior.PublishDate # <<>>
    /\ metadata = input.prior

\* No run after p has started.
LastToStart(p) == \A q \in Procs : q > p => proc[q].pc = "main"

\* C19: when a run ends because the existing target, not empty, is no
\* articles collection, it ends with an error and a non-zero exit status and
\* the files are those it found: the target holds what it held, and no backup
\* was created or overwritten.
C19_InvalidJSONLeavesFiles ==
    \A p \in Procs :
        (proc[p].failed = "parse" /\ LastToStart(p)) =>
            /\ proc[p].exit # 0
            /\ proc[p].out = <<"error">>
            /\ fs = proc[p].before

(***************************************************************************)
(* Two invocations at the same time on one target that holds a collection: *)
(* nothing orders their steps, no file is locked.                          *)
(***************************************************************************)
Writers == {1, 2}

InitWriters ==
    /\ WalkIdle
    /\ today = Day
    /\ \E t \in {TargetWritten, TargetSample},
          ins \in [Writers -> {in \in RunInputs : in.nargs = 3 /\ in.page.ok}] :
          /\ input = [kind |-> "files", path |-> <<"a", ".", "j", "s", "o", "n">>, target |-> t, stale |-> FALSE]
          /\ fs = FilesAtFirst(<<"a", ".", "j", "s", "o", "n">>, t, FALSE)
          /\ proc = [p \in Writers |-> NewProc(ins[p], <<"a", ".", "j", "s", "o", "n">>)]

NextWriters == \E p \in Writers : MainArgs(p) \/ RunStep(p)

SpecWriters == InitWriters /\ [][NextWriters]_vars

(***************************************************************************)
(* Properties of two invocations at the same time.                         *)
(***************************************************************************)
\* Both invocations have ended with success.
BothSucceeded == \A p \in Writers : proc[p].pc = "exited" /\ proc[p].exit = 0

\* Each invocation read the target before the other opened it for writing.
BothReadFirst == \A p \in Writers : proc[p].readFirst

\* No step of one invocation was taken while the other was inside main.
OneAfterTheOther == \A p \in Writers : ~proc[p].overlapped

\* The text invocation p writes when it read the target as it was at first.
TextOf(p) == MarshalCollection(input.target.articles \o <<proc[p].page.md>>)

\* The target holds the collection it held at first and the record of p.
HoldsOnly(p) ==
    LET c == UnmarshalCollection(Held(fs, input.path))
    IN  ~c.err /\ c.articles = input.target.articles \o <<proc[p].page.md>>

\* The target holds the text of p and, behind it, the end of the longer text
\* of q.
HoldsOverlaid(p, q) ==
    /\ Len(TextOf(q)) > Len(TextOf(p))
    /\ Held(fs, input.path) = TextOf(p) \o SubSeq(TextOf(q), Len(TextOf(p)) + 1, Len(TextOf(q)))

\* C20 as it is stated: when both invocations read the target before either
\* wrote it and both ended with success, the target holds the collection
\* with the record of only one of them.
C20_OnlyOneRecordStays ==
    (BothSucceeded /\ BothReadFirst) => \E p \in Writers : HoldsOnly(p)

\* C20: when both invocations read the target before either wrote it and
\* both ended with success, the target never holds both records: it holds
\* the collection with the record of only one of them or, when both opened
\* it before either wrote, the shorter text of one followed by the end of the
\* longer text of the other, which is no JSON text; when the steps of one
\* all came after the end of the other, the target holds both records behind
\* those it held at first.
C20_LostUpdate ==
    /\ (BothSucceeded /\ BothReadFirst) =>
           \/ \E p \in Writers : HoldsOnly(p)
           \/ /\ \E p, q \in Writers : p # q /\ HoldsOverlaid(p, q)
              /\ UnmarshalCollection(Held(fs, input.path)).err
    /\ (BothSucceeded /\ OneAfterTheOther) =>
           LET c == UnmarshalCollection(Held(fs, input.path))
           IN  /\ ~c.err
               /\ \E p, q \in Writers :
                     /\ p # q
                     /\ c.articles = input.target.articles \o <<proc[p].page.md, proc[q].page.md>>

\* C20 witness: both read first, both ended with success, and the target
\* holds the record of the second invocation without the other record of the
\* first.
C20_Witness ==
    /\ BothSucceeded
    /\ BothReadFirst
    /\ proc[1].page.md # proc[2].page.md
    /\ HoldsOnly(2)

(***************************************************************************)
(* Properties of the backup over several runs of one day.                  *)
(***************************************************************************)
\* The runs that ended with success.
Succeeded == {p \in Procs : proc[p].pc = "exited" /\ proc[p].exit = 0}

\* Run p is the last that started, and it ended with success after another
\* had.
LatestOfSeveral(p) ==
    /\ p \in Succeeded
    /\ LastToStart(p)
    /\ Succeeded # {p}

\* C21: when two or more runs of one day have appended to the target, the
\* file <target path>.<YYYYMMDD>.bkp holds what the target held right before
\* the latest of these appends, and what the target held before the first
\* run is held by no file.
C21_BackupOfLatestAppend ==
    \A p \in Procs :
        LatestOfSeveral(p) =>
            /\ Exists(fs, BackupName)
            /\ fs[BackupName] = proc[p].before[input.path]
            /\ DOMAIN fs = {input.path, BackupName}
            /\ Held(FilesAtFirst(input.path, input.target, input.stale), input.path) # <<>> =>
                   \A f \in DOMAIN fs : fs[f] # input.target.text

\* C21 witness: the target held a collection at first, two runs appended to
\* it, and the backup holds the collection with the record of the first run.
C21_Witness ==
    \E p \in Procs :
        /\ LatestOfSeveral(p)
        /\ input.target.kind = "valid"
        /\ proc[p].before[input.path] # input.target.text
        /\ fs[BackupName] = MarshalCollection(input.target.articles \o <<proc[1].page.md>>)
        /\ fs[input.path] # fs[BackupName]

(***************************************************************************)
(* What can be recovered while a run appends.  A run that is killed leaves *)
(* the files as they are in the state it was killed in; a file operation   *)
(* that is cut short leaves what its failure leaves.                       *)
(***************************************************************************)
\* What the target held when run p started.
FoundText(p) == Held(proc[p].before, input.path)

\* C22: from the start of a run that found the target existing and not empty
\* until the next run starts, in every state, the target or the file
\* <target path>.<YYYYMMDD>.bkp holds all that the target held when the run
\* started.
C22_OneCopyComplete ==
    \A p \in Procs :
        (FoundTarget(p) /\ LastToStart(p)) =>
            \/ Held(fs, input.path) = FoundText(p)
            \/ Held(fs, BackupName) = FoundText(p)

\* C22 witness: the run has emptied the target and not yet written it, and
\* the backup holds what the target held.
C22_Witness ==
    \E p \in Procs :
        /\ FoundTarget(p)
        /\ LastToStart(p)
        /\ proc[p].pc = "write_data"
        /\ Held(fs, input.path) = <<>>
        /\ Held(fs, BackupName) = FoundText(p)

(***************************************************************************)
(* extractOGMetadata on pages that repeat OpenGraph tags, with and without *)
(* content.                                                                *)
(***************************************************************************)
\* og:title given by the name attribute.
OgTitleNamed ==
    Leaf("meta", <<Attr("name", "og:title"), Attr("content", <<"U">>)>>,
         FALSE, <<>>, "og:title", <<"U">>)

\* og:title without a content attribute.
OgTitleBare ==
    Leaf("meta", <<Attr("property", "og:title")>>, FALSE, <<>>, "og:title", <<>>)

OgSiteName ==
    Leaf("meta", <<Attr("property", "og:site_name"), Attr("content", <<"S">>)>>,
         FALSE, <<>>, "og:site_name", <<"S">>)

\* og:site_name with an empty content.
OgSiteNameEmpty ==
    Leaf("meta", <<Attr("property", "og:site_name"), Attr("content", <<>>)>>,
         FALSE, <<>>, "og:site_name", <<>>)

OgImage ==
    Leaf("meta", <<Attr("property", "og:image"), Attr("content", <<"I">>)>>,
         FALSE, <<>>, "og:image", <<"I">>)

RepeatLeaves ==
    {OgTitle, OgTitleNamed, OgTitleBare, OgSiteName, OgSiteNameEmpty, OgImage,
     OgUrl, OgDescription, MetaPublished}

InitRepeat ==
    /\ pc = "start"
    /\ input = NoInput
    /\ url \in PageURLs
    /\ doc \in DocsOver(RepeatLeaves)
    /\ stack = <<>>
    /\ metadata = ZeroMetadata
    /\ ret = <<>>
    /\ walkDate = <<>>
    /\ NoFiles

SpecRepeat == InitRepeat /\ [][Next]_vars

\* The value of the last tag of the given kind on page d, nothing when the
\* page has none.
LastOf(d, kind) ==
    LET ns == NotesOf(d, {kind})
    IN  IF ns = <<>> THEN <<>> ELSE ns[Len(ns)].date

\* The date of the first date tag of page d, or else the date of the URL u.
FirstDateOf(d, u) ==
    LET ns == NotesOf(d, {"meta"})
    IN  IF ns = <<>> THEN extractDateFromURL(u) ELSE ns[1].date

\* C23: in the record returned, url, title, description, image and source
\* hold the content of the last og:url, og:title, og:description, og:image
\* and og:site_name element of the page in document order (nothing when that
\* element has an empty content or none, or when the page has no such
\* element), and these elements change nothing else: the slug is that of
\* the URL and publishDate is the date of the first date tag or of the URL.
C23_OgFieldsLastWins ==
    pc = "done" =>
        metadata = [URL         |-> LastOf(doc, "og:url"),
                    Title       |-> LastOf(doc, "og:title"),
                    Description |-> LastOf(doc, "og:description"),
                    Image       |-> LastOf(doc, "og:image"),
                    Source      |-> LastOf(doc, "og:site_name"),
                    Slug        |-> extractSlug(url),
                    PublishDate |-> FirstDateOf(doc, url)]

\* C23 witness: an og:title with a content stands before one without, and the
\* record returned has no title.
C23_Witness ==
    /\ pc = "done"
    /\ Len(NotesOf(doc, {"og:title"})) = 2
    /\ NotesOf(doc, {"og:title"})[1].date = <<"T">>
    /\ NotesOf(doc, {"og:title"})[2].date = <<>>
    /\ metadata.Title = <<>>

(***************************************************************************)
(* extractOGMetadata on pages with date sources that carry the empty       *)
(* string.  The note of such a source is of kind "blank".                  *)
(***************************************************************************)
\* A date meta element without a content attribute.
MetaDateBare ==
    Leaf("meta", <<Attr("name", "DC.date.issued")>>, FALSE, <<>>, "blank", <<>>)

\* A date meta element with an empty content.
MetaDateEmpty ==
    Leaf("meta", <<Attr("property", "datePublished"), Attr("content", <<>>)>>,
         FALSE, <<>>, "blank", <<>>)

\* A JSON object whose only date field is the empty string.
ScriptBlankOnly ==
    Leaf("script", <<Attr("type", "application/ld+json")>>,
         TRUE, <<"{", "\"", "p", "u", "b", "D", "a", "t", "e", "\"", ":", "\"", "\"", "}">>, "blank", <<>>)

\* A JSON object with an empty datePublished and a dateModified.
ScriptBlankFirst ==
    Leaf("script", <<Attr("type", "application/ld+json")>>,
         TRUE, <<"{", "\"", "@", "t", "y", "p", "e", "\"", ":", "\"", "A", "r", "t", "i", "c", "l", "e", "\"", ",", "\"", "d", "a", "t", "e", "M", "o", "d", "i", "f", "i", "e", "d", "\"", ":", "\"", "m", "1", "\"", ",", "\"", "d", "a", "t", "e", "P", "u", "b", "l", "i", "s", "h", "e", "d", "\"", ":", "\"", "\"", "}">>, "blank", <<>>)

\* The dateModified of ScriptBlankFirst.
ShadowedDate == <<"m", "1">>

BlankLeaves ==
    {MetaDateBare, MetaDateEmpty, ScriptBlankOnly, ScriptBlankFirst,
     MetaPublished, MetaPubdate, ScriptDated}

InitBlank ==
    /\ pc = "start"
    /\ input = NoInput
    /\ url \in PageURLs
    /\ doc \in DocsOver(BlankLeaves)
    /\ stack = <<>>
    /\ metadata = ZeroMetadata
    /\ ret = <<>>
    /\ walkDate = <<>>
    /\ NoFiles

SpecBlank == InitBlank /\ [][Next]_vars

\* The date of the first source of page d that carries a date, nothing when
\* there is none.
FirstFullDate(d) ==
    LET ns == NotesOf(d, {"meta", "json"})
    IN  IF ns = <<>> THEN <<>> ELSE ns[1].date

\* C24: a date meta element with an empty content or none, and a JSON object
\* that has the empty string in a date field, leave publishDate unset: the
\* walk ends with the date of the first source that carries one, whatever
\* blank sources stand before it, and without such a source with nothing,
\* so that the date of the URL is returned; and the dateModified of an
\* object whose datePublished is the empty string is never the date.
C24_EmptyStringClaimsNothing ==
    /\ pc = "done" =>
           /\ walkDate = FirstFullDate(doc)
           /\ metadata.PublishDate =
                  IF FirstFullDate(doc) = <<>> THEN extractDateFromURL(url) ELSE FirstFullDate(doc)
    /\ metadata.PublishDate # ShadowedDate

\* C24 witness: the object with the empty datePublished stands first, a date
\* meta element without content next, a date meta element last, and the date
\* of the last is returned.
C24_Witness ==
    /\ pc = "done"
    /\ NotesOf(doc, {"blank", "meta", "json"}) = <<ScriptBlankFirst.Note, MetaPubdate.Note>>
    /\ doc[DocumentOrder(doc)[2]].Data = "script"
    /\ metadata.PublishDate = MetaPubdate.Note.date

(***************************************************************************)
(* Properties of the keys of the file written.                             *)
(***************************************************************************)
\* The keys of the members of an object, in the order of the text.
KeysOf(obj) == [k \in 1..Len(obj.items) |-> obj.items[k][1]]

\* The keys a stored record is written with.
KeysWritten(md) ==
    << <<"u", "r", "l">>, <<"t", "i", "t", "l", "e">>, <<"d", "e", "s", "c", "r", "i", "p", "t", "i", "o", "n">>, <<"i", "m", "a", "g", "e">>, <<"s", "l", "u", "g">> >>
        \o (IF md.PublishDate # <<>> THEN << <<"p", "u", "b", "l", "i", "s", "h", "D", "a", "t", "e">> >> ELSE <<>>)
        \o (IF md.Source # <<>> THEN << <<"s", "o", "u", "r", "c", "e">> >> ELSE <<>>)

\* C25: after a run has appended, the file is an object with the one key
\* articles, an array of one object for each record stored before and each
\* record appended; every such object has the keys url, title, description,
\* image and slug, also for an empty value, after them publishDate and
\* source when the record has a value for them, and no other key; the
\* published_date of a record written by hand and a top-level key other than
\* articles are no longer in the file.
C25_OnlyKnownKeys ==
    \A p \in Procs :
        (p \in Succeeded /\ LastToStart(p)) =>
            LET v       == ParseValue(fs[input.path])
                records == input.target.articles \o Appended
            IN  /\ v.ok
                /\ v.val.t = "object"
                /\ KeysOf(v.val) = << <<"a", "r", "t", "i", "c", "l", "e", "s">> >>
                /\ v.val.items[1][2].t = "array"
                /\ Len(v.val.items[1][2].items) = Len(records)
                /\ \A k \in 1..Len(records) :
                      /\ v.val.items[1][2].items[k].t = "object"
                      /\ KeysOf(v.val.items[1][2].items[k]) = KeysWritten(records[k])
                /\ Index(fs[input.path], <<"p", "u", "b", "l", "i", "s", "h", "e", "d", "_", "d", "a", "t", "e">>) = 0

\* C25 witness: the target was the collection written by hand, with
\* published_date in its record and a second top-level key, and a run has
\* appended to it.
C25_Witness ==
    \E p \in Procs :
        /\ p \in Succeeded
        /\ LastToStart(p)
        /\ Index(input.target.text, <<"p", "u", "b", "l", "i", "s", "h", "e", "d", "_", "d", "a", "t", "e">>) # 0
        /\ Index(input.target.text, <<"\"", "n", "\"">>) # 0
        /\ Index(fs[input.path], <<"\"", "n", "\"">>) = 0
        /\ KeysOf(ParseValue(fs[input.path]).val.items[1][2].items[1])
               = << <<"u", "r", "l">>, <<"t", "i", "t", "l", "e">>, <<"d", "e", "s", "c", "r", "i", "p", "t", "i", "o", "n">>, <<"i", "m", "a", "g", "e">>, <<"s", "l", "u", "g">> >>

====
